---- MODULE Spec2Model ----
(***************************************************************************)
(* The time-series normalisation pipeline of the PurCarte theme: the merge *)
(* step, the chartData memo, the zoom state and the stride downsampling of *)
(* PingChart.tsx and the pure helpers of utils (fillMissingTimePoints,     *)
(* interpolateNullsLinear, cutPeakValues, sampleDataByRetention,           *)
(* calculateLossRate, calculateTaskStats).                                 *)
(*                                                                         *)
(* Each function is modelled as its own activation record (one variable    *)
(* per function, one field per local of the source) and has its own        *)
(* specification; while one function runs the other records stay Idle.     *)
(* JavaScript numbers are modelled as exact integers or exact fractions    *)
(* [num, den]; floating-point rounding is not modelled.                    *)
(***************************************************************************)
EXTENDS Integers, Sequences, FiniteSets, TLC

VARIABLES ping, stats, stride, interp, fill, retention, peak, chart, loss, panel, legend

vars == <<ping, stats, stride, interp, fill, retention, peak, chart, loss, panel, legend>>

\* Cell values of a row: null, or a number held as the exact fraction
\* <<numerator, denominator>>, denominator > 0. An absent key of an object
\* (undefined) is a key outside DOMAIN.
NULL == <<>>
Num(n) == <<n, 1>>
IsNumber(c) == Len(c) = 2
\* The value of a record of a function that is not running.
Idle == [pc |-> "idle"]

\* What a caller can pass for an array parameter: an array (its elements are
\* the field next to it), null or undefined.
ArgKinds == {"array", "null", "undefined"}
NoArrayKinds == {"null", "undefined"}

Min(a, b) == IF a <= b THEN a ELSE b
Max(a, b) == IF a >= b THEN a ELSE b
Abs(x) == IF x < 0 THEN -x ELSE x

\* new Date(ms).toISOString(): the text, held as <<seconds, millisecond digits>>.
ToISOString(ms) == <<ms \div 1000, ms % 1000>>
\* new Date(text).getTime()
GetTime(iso) == iso[1] * 1000 + iso[2]

\* Exact fractions <<num, den>> with den > 0.
FracEq(a, b) == a[1] * b[2] = b[1] * a[2]
FracLeq(a, b) == a[1] * b[2] <= b[1] * a[2]
RECURSIVE GCD(_, _)
GCD(a, b) == IF b = 0 THEN a ELSE GCD(b, a % b)
\* The same number in lowest terms.
Reduced(x) == LET g == GCD(Abs(x[1]), x[2]) IN <<x[1] \div g, x[2] \div g>>

\* { ...row, [key]: v }
Spread(row, key, v) ==
  [k \in DOMAIN row \cup {key} |-> IF k = key THEN v ELSE row[k]]

\* String(task.id) / the property key a numeric task id indexes.
KeyOf(id) == IF id = 1 THEN "1" ELSE "2"

(***************************************************************************)
(* PingChart.tsx, midData: the merge of raw samples into anchored rows.    *)
(***************************************************************************)
MaxRecs == 3
TimeValues == {0, 3000, 4000, 9000}
TaskIds == {1, 2}
ValueSet == {-1, 7}
HoursSet == {0, 1}

\* pingHistory.records entries: time is the ISO text the server sent.
RawSamples ==
  {[time |-> ToISOString(t), task_id |-> id, value |-> v] :
     t \in TimeValues, id \in TaskIds, v \in ValueSet}

\* NaN, the time value of a text that Date cannot parse; no time is negative.
NaN == -1
\* A time text that Date cannot parse.
InvalidDate == <<-1, 0>>
\* new Date(text).getTime()
DateGetTime(text) == IF text = InvalidDate THEN NaN ELSE GetTime(text)
\* new Date(ms).toISOString() throws a RangeError for an invalid date.
ToISOStringThrows(ms) == ms = NaN

\* A record whose time text does not parse.
BadSamples == {[time |-> InvalidDate, task_id |-> 1, value |-> 7]}

\* pingHistory.tasks: interval 0 stands for a task without a usable interval.
TaskLists ==
  {<<>>} \cup
  {<<[id |-> 1, interval |-> i], [id |-> 2, interval |-> 0]>> :
     i \in {0, 12, 20}} \cup
  {<<[id |-> 1, interval |-> 20], [id |-> 2, interval |-> 2]>>}

DefaultIntervalSec == 60
MaxToleranceMs == 6000
MinToleranceMs == 800

RECURSIVE SeqMin(_)
SeqMin(s) ==
  IF Len(s) = 1 THEN s[1] ELSE Min(s[1], SeqMin(Tail(s)))

\* tasks.map(t => t.interval).filter(v => typeof v === "number" && v > 0)
taskIntervals(tasks) ==
  SelectSeq([i \in 1..Len(tasks) |-> tasks[i].interval], LAMBDA v : v > 0)

fallbackIntervalSec(tasks) ==
  IF Len(taskIntervals(tasks)) > 0 THEN SeqMin(taskIntervals(tasks))
  ELSE DefaultIntervalSec

toleranceMs(tasks) ==
  Min(MaxToleranceMs,
      Max(MinToleranceMs, (fallbackIntervalSec(tasks) * 1000 * 25) \div 100))

\* The comparison of line 97 with < in place of <=.
WithinToleranceStrict(a, ts, tol) == Abs(a - ts) < tol

\* Math.abs(a - ts) <= toleranceMs
WithinTolerance(a, ts, tol) == Abs(a - ts) <= tol

\* A scan that keeps the last matching anchor instead of breaking at the first.
FindAnchorLast(anchors, ts, tol) ==
  LET hits == {i \in 1..Len(anchors) : WithinTolerance(anchors[i], ts, tol)}
  IN IF hits = {} THEN 0 ELSE CHOOSE i \in hits : \A j \in hits : i >= j

\* for (const a of anchors) { if (...) { anchor = a; break; } }: the index of
\* the first matching anchor, 0 for anchor === null.
FindAnchorA(anchors, ts, tol) ==
  LET hits == {i \in 1..Len(anchors) : WithinTolerance(anchors[i], ts, tol)}
  IN IF hits = {} THEN 0 ELSE CHOOSE i \in hits : \A j \in hits : i <= j

\* The sentinel passed through unchanged.
CellValueRaw(value) == Num(value)

\* rec.value < 0 ? null : rec.value
CellValue(value) == IF value < 0 THEN NULL ELSE Num(value)

\* Array.prototype.sort with (a, b) => time(a) - time(b): a stable insertion
\* of each row behind the rows that do not compare greater.
RECURSIVE InsertByTime(_, _)
InsertByTime(sorted, row) ==
  IF sorted = <<>> THEN <<row>>
  ELSE IF GetTime(sorted[Len(sorted)]["time"]) - GetTime(row["time"]) <= 0
       THEN Append(sorted, row)
       ELSE Append(InsertByTime(SubSeq(sorted, 1, Len(sorted) - 1), row),
                   sorted[Len(sorted)])

\* The rows left in insertion order.
SortByTimeSkipped(rows) == rows

RECURSIVE SortByTime(_)
SortByTime(rows) ==
  IF rows = <<>> THEN <<>>
  ELSE InsertByTime(SortByTime(SubSeq(rows, 1, Len(rows) - 1)), rows[Len(rows)])

\* Object.values(grouped): the rows in key insertion order, which is the
\* order in which the anchors were created.
ObjectValues(grouped, anchors) == [i \in 1..Len(anchors) |-> grouped[anchors[i]]]

\* The clip of merged to the look-back window, lines 116-128.
StartIdx(merged, hours) ==
  LET lastTs == GetTime(merged[Len(merged)]["time"])
      fromTs == lastTs - hours * 3600000
      hit == {i \in 1..Len(merged) : GetTime(merged[i]["time"]) >= fromTs}
      first == CHOOSE i \in hit : \A j \in hit : i <= j
  IN IF hit = {} THEN 1 ELSE Max(1, first - 1)

PingInit ==
  \E tasks \in TaskLists :
    ping = [pc |-> "loop", tasks |-> tasks, data |-> <<>>, used |-> <<>>,
            anchors |-> <<>>, grouped |-> <<>>, merged |-> <<>>,
            midData |-> <<>>]

NotPing == <<stats, stride, interp, fill, retention, peak, chart, loss, panel, legend>>

\* One iteration of for (const rec of data), lines 93-108. data is the part
\* of pingHistory.records consumed so far, used[i] the key data[i] went to.
MergeRec ==
  /\ ping.pc = "loop"
  /\ ping.tasks # <<>>
  /\ Len(ping.data) < MaxRecs
  /\ \E rec \in RawSamples \cup BadSamples :
       LET ts == DateGetTime(rec.time)
           \* Math.abs(a - ts) <= toleranceMs is false for every a when ts is NaN
           found == IF ts = NaN THEN 0
                    ELSE FindAnchorA(ping.anchors, ts, toleranceMs(ping.tasks))
           use == IF found = 0 THEN ts ELSE ping.anchors[found]
           fresh == use \notin DOMAIN ping.grouped
           row == IF fresh THEN [k \in {"time"} |-> ToISOString(use)]
                  ELSE ping.grouped[use]
           newRow == Spread(row, KeyOf(rec.task_id), CellValue(rec.value))
       IN IF fresh /\ ToISOStringThrows(use)
          THEN \* line 104 throws and the memo is left by the exception
               ping' = [ping EXCEPT !.pc = "threw"]
          ELSE ping' = [ping EXCEPT
                  !.data = Append(@, rec),
                  !.used = Append(@, use),
                  !.anchors = IF fresh /\ found = 0 THEN Append(@, use) ELSE @,
                  !.grouped = [a \in DOMAIN @ \cup {use} |->
                                 IF a = use THEN newRow ELSE @[a]]]
  /\ UNCHANGED NotPing

\* Line 78: no records or no tasks, midData is [].
MergeEmpty ==
  /\ ping.pc = "loop"
  /\ ping.data = <<>>
  /\ ping' = [ping EXCEPT !.pc = "done"]
  /\ UNCHANGED NotPing

\* Lines 109-112: the records are exhausted; collect and sort the rows.
MergeSort ==
  /\ ping.pc = "loop"
  /\ ping.data # <<>>
  /\ ping' = [ping EXCEPT
        !.pc = "clip",
        !.merged = SortByTime(ObjectValues(ping.grouped, ping.anchors))]
  /\ UNCHANGED NotPing

\* Lines 114-129.
MergeClip ==
  /\ ping.pc = "clip"
  /\ \E hours \in HoursSet :
       ping' = [ping EXCEPT
          !.pc = "done",
          !.midData = SubSeq(ping.merged, StartIdx(ping.merged, hours),
                             Len(ping.merged))]
  /\ UNCHANGED NotPing

InitMerge ==
  /\ PingInit
  /\ stats = Idle /\ stride = Idle /\ interp = Idle
  /\ fill = Idle /\ retention = Idle /\ peak = Idle /\ chart = Idle /\ loss = Idle /\ panel = Idle /\ legend = Idle

NextMerge == MergeRec \/ MergeEmpty \/ MergeSort \/ MergeClip

SpecMerge == InitMerge /\ [][NextMerge]_vars

(***************************************************************************)
(* Claims about the merge step.                                            *)
(***************************************************************************)
MergeDone == ping.pc \in {"clip", "done"} /\ ping.data # <<>>

HasRowOfAnchor(a) ==
  \E i \in 1..Len(ping.merged) : GetTime(ping.merged[i]["time"]) = a

\* The row of merged whose anchor is a.
RowOfAnchor(a) ==
  ping.merged[CHOOSE i \in 1..Len(ping.merged) :
                GetTime(ping.merged[i]["time"]) = a]

\* data[i] is the last sample of its task that went to its anchor.
LastOfItsCell(i) ==
  \A j \in (i + 1)..Len(ping.data) :
    ~(ping.used[j] = ping.used[i] /\ ping.data[j].task_id = ping.data[i].task_id)

\* C1 as stated: after the merge, for every raw sample with value -1 the cell
\* of its task in the row of the anchor it was merged into is null.
C1_SentinelCellNull ==
  MergeDone =>
    \A i \in 1..Len(ping.data) :
      ping.data[i].value = -1 =>
        /\ HasRowOfAnchor(ping.used[i])
        /\ RowOfAnchor(ping.used[i])[KeyOf(ping.data[i].task_id)] = NULL

\* C1 amended: the cell of a sample with value -1 is never -1, and it is null
\* unless a later sample of the same task was merged into the same anchor (the
\* last sample written to a cell decides it).
C1_SentinelNeverStored ==
  MergeDone =>
    \A i \in 1..Len(ping.data) :
      ping.data[i].value = -1 =>
        /\ HasRowOfAnchor(ping.used[i])
        /\ RowOfAnchor(ping.used[i])[KeyOf(ping.data[i].task_id)] # Num(-1)
        /\ LastOfItsCell(i) =>
             RowOfAnchor(ping.used[i])[KeyOf(ping.data[i].task_id)] = NULL

\* A failed sample merged into an anchor that another sample created, its
\* cell being null in the sorted rows.
C1_Witness ==
  /\ ping.pc = "clip"
  /\ Len(ping.data) = 3
  /\ Len(ping.merged) = 2
  /\ \E i \in 1..Len(ping.data) :
       /\ ping.data[i].value = -1
       /\ LastOfItsCell(i)
       /\ GetTime(ping.data[i].time) # ping.used[i]
       /\ RowOfAnchor(ping.used[i])[KeyOf(ping.data[i].task_id)] = NULL

\* C8: the rows the merge step returns are in strictly ascending anchor time
\* (so no anchor appears twice), whatever the arrival order of the samples;
\* there is one row per anchor created.
C8_StrictlyAscending ==
  MergeDone =>
    /\ Len(ping.merged) = Len(ping.anchors)
    /\ \A i \in 1..(Len(ping.merged) - 1) :
         GetTime(ping.merged[i]["time"]) < GetTime(ping.merged[i + 1]["time"])
    /\ \A i \in 1..(Len(ping.midData) - 1) :
         GetTime(ping.midData[i]["time"]) < GetTime(ping.midData[i + 1]["time"])

\* Three anchors created in descending time order and returned ascending.
C8_Witness ==
  /\ ping.pc = "clip"
  /\ Len(ping.anchors) = 3
  /\ ping.anchors[1] > ping.anchors[2]
  /\ ping.anchors[2] > ping.anchors[3]
  /\ GetTime(ping.merged[1]["time"]) = ping.anchors[3]

\* The samples before data[i] that created an anchor.
CreatedBefore(i) ==
  {k \in 1..(i - 1) : \A m \in 1..(k - 1) : ping.used[m] # ping.used[k]}

MatchesBefore(i) ==
  {k \in CreatedBefore(i) :
     Abs(ping.used[k] - GetTime(ping.data[i].time)) <= toleranceMs(ping.tasks)}

\* C9: a sample joins an existing anchor exactly when some existing anchor is
\* within the tolerance of its timestamp, and then the first such anchor in
\* creation order; otherwise its own timestamp becomes a new anchor. Samples
\* at 0 and 4000 give one anchor with tolerance 5000 and two with 3000.
C9_FirstMatchOrNew ==
  /\ Len(ping.used) = Len(ping.data)
  /\ \A i \in 1..Len(ping.data) :
       IF MatchesBefore(i) = {}
       THEN /\ ping.used[i] = GetTime(ping.data[i].time)
            /\ \A k \in CreatedBefore(i) : ping.used[k] # ping.used[i]
       ELSE \E k \in MatchesBefore(i) :
              /\ ping.used[i] = ping.used[k]
              /\ \A m \in MatchesBefore(i) : k <= m
  /\ \A n \in 1..Len(ping.anchors) :
       \E k \in CreatedBefore(Len(ping.data) + 1) :
         /\ ping.anchors[n] = ping.used[k]
         /\ Cardinality({m \in CreatedBefore(Len(ping.data) + 1) : m <= k}) = n
  /\ Len(ping.anchors) = Cardinality(CreatedBefore(Len(ping.data) + 1))
  /\ (/\ Len(ping.data) = 2
      /\ GetTime(ping.data[1].time) = 0
      /\ GetTime(ping.data[2].time) = 4000) =>
       /\ toleranceMs(ping.tasks) = 5000 => ping.anchors = <<0>>
       /\ toleranceMs(ping.tasks) = 3000 => ping.anchors = <<0, 4000>>

\* A sample within the tolerance of two existing anchors joins the older one,
\* although the younger one is nearer.
C9_Witness ==
  /\ Len(ping.data) = 3
  /\ toleranceMs(ping.tasks) = 3000
  /\ ping.anchors = <<0, 4000>>
  /\ GetTime(ping.data[3].time) = 3000
  /\ ping.used[3] = 0

(***************************************************************************)
(* localeUtils.ts, calculateTaskStats.                                     *)
(***************************************************************************)
MaxStatRecs == 3
StatTimes == {1000, 2000, 3000}

\* Records of task 1 with every value, of task 2 with one value.
StatSamples ==
  {[time |-> ToISOString(t), task_id |-> 1, value |-> v] :
     t \in StatTimes, v \in {-1, 0, 10, 20}} \cup
  {[time |-> ToISOString(t), task_id |-> 2, value |-> 10] : t \in StatTimes}

\* timeRange: null (NULL) or [start, end].
StatRanges == {NULL, <<1000, 2000>>, <<2000, 3000>>}

RECURSIVE SeqsUpTo(_, _)
SeqsUpTo(S, n) ==
  IF n = 0 THEN {<<>>}
  ELSE LET shorter == SeqsUpTo(S, n - 1)
       IN shorter \cup {Append(q, x) : q \in {r \in shorter : Len(r) = n - 1}, x \in S}

\* rec => t >= timeRange[0] && t <= timeRange[1]
InRange(rec, timeRange) ==
  GetTime(rec.time) >= timeRange[1] /\ GetTime(rec.time) <= timeRange[2]

relevantRecords(records, timeRange) ==
  IF timeRange # NULL
  THEN SelectSeq(records, LAMBDA rec : InRange(rec, timeRange))
  ELSE records

taskRecords(records, taskId, timeRange) ==
  SelectSeq(relevantRecords(records, timeRange), LAMBDA rec : rec.task_id = taskId)

\* A success test that leaves out the value 0.
IsSuccessPositive(rec) == rec.value > 0

\* rec => rec.value >= 0
IsSuccess(rec) == rec.value >= 0

successfulPings(records, taskId, timeRange) ==
  SelectSeq(taskRecords(records, taskId, timeRange), IsSuccess)

\* (1 - successfulPings.length / totalPings) * 100, or 0 without records.
LossOf(successCount, totalPings) ==
  IF totalPings > 0 THEN <<(totalPings - successCount) * 100, totalPings>>
  ELSE <<0, 1>>

\* A reducer that lets a later record win on an equal timestamp.
LaterOfOrEqual(latest, current) ==
  IF GetTime(current.time) >= GetTime(latest.time) THEN current ELSE latest

\* (latest, current) => new Date(current.time) > new Date(latest.time) ? current : latest
LaterOf(latest, current) ==
  IF GetTime(current.time) > GetTime(latest.time) THEN current ELSE latest

\* Array.prototype.reduce without an initial value, on a non-empty array.
RECURSIVE ReduceLatest(_)
ReduceLatest(s) ==
  IF Len(s) = 1 THEN s[1]
  ELSE LaterOf(ReduceLatest(SubSeq(s, 1, Len(s) - 1)), s[Len(s)])

calculateTaskStats(records, taskId, timeRange) ==
  LET total == Len(taskRecords(records, taskId, timeRange))
      ok == successfulPings(records, taskId, timeRange)
  IN [loss |-> LossOf(Len(ok), total),
      latestValue |-> IF Len(ok) > 0 THEN Num(ReduceLatest(ok).value) ELSE NULL,
      latestTime |-> IF Len(ok) > 0 THEN ReduceLatest(ok).time ELSE NULL]

StatsInit ==
  \E timeRange \in StatRanges :
    \/ \E records \in SeqsUpTo(StatSamples, MaxStatRecs) :
         stats = [pc |-> "call", arg |-> "array", records |-> records, taskId |-> 1,
                  timeRange |-> timeRange, result |-> NULL]
    \/ \E arg \in NoArrayKinds :
         stats = [pc |-> "call", arg |-> arg, records |-> <<>>, taskId |-> 1,
                  timeRange |-> timeRange, result |-> NULL]

NotStats == <<ping, stride, interp, fill, retention, peak, chart, loss, panel, legend>>

\* Lines 649-674. Without a time range relevantRecords is records itself, and
\* relevantRecords?.filter(...) || [] turns null and undefined into [].
CalcStats ==
  /\ stats.pc = "call"
  /\ stats.arg = "array" \/ stats.timeRange = NULL
  /\ stats' = [stats EXCEPT
        !.pc = "done",
        !.result = calculateTaskStats(stats.records, stats.taskId, stats.timeRange)]
  /\ UNCHANGED NotStats

\* Line 650: with a time range, records.filter is called on records as it is;
\* on null or undefined that is a TypeError.
CalcStatsThrow ==
  /\ stats.pc = "call"
  /\ stats.arg \in NoArrayKinds /\ stats.timeRange # NULL
  /\ stats' = [stats EXCEPT !.pc = "threw"]
  /\ UNCHANGED NotStats

InitStats ==
  /\ StatsInit
  /\ ping = Idle /\ stride = Idle /\ interp = Idle
  /\ fill = Idle /\ retention = Idle /\ peak = Idle /\ chart = Idle /\ loss = Idle /\ panel = Idle /\ legend = Idle

NextStats == CalcStats \/ CalcStatsThrow

SpecStats == InitStats /\ [][NextStats]_vars

(***************************************************************************)
(* Claims about calculateTaskStats.                                        *)
(***************************************************************************)
\* The indices of the records of the task inside the window, and the
\* successful ones among them.
StatMatching ==
  {i \in 1..Len(stats.records) :
     /\ stats.records[i].task_id = stats.taskId
     /\ stats.timeRange # NULL =>
          /\ GetTime(stats.records[i].time) >= stats.timeRange[1]
          /\ GetTime(stats.records[i].time) <= stats.timeRange[2]}

StatSucceeded == {i \in StatMatching : stats.records[i].value >= 0}

\* The loss percentage before rounding, as a fraction.
StatExactLoss ==
  IF StatMatching = {} THEN <<0, 1>>
  ELSE <<(Cardinality(StatMatching) - Cardinality(StatSucceeded)) * 100,
         Cardinality(StatMatching)>>

\* Math.round(x * 10) / 10 of a non-negative fraction.
RoundTo1(x) == <<(x[1] * 10 * 2 + x[2]) \div (2 * x[2]), 10>>

StatExample ==
  /\ Len(stats.records) = 3
  /\ stats.timeRange = NULL
  /\ \A i \in 1..3 : stats.records[i].task_id = 1
  /\ \A i \in 1..3 : GetTime(stats.records[i].time) = i * 1000
  /\ stats.records[1].value = 10
  /\ stats.records[2].value = -1
  /\ stats.records[3].value = 20

C4_LatestIsFirstMax ==
  stats.pc = "done" =>
    IF StatSucceeded = {}
    THEN stats.result.latestValue = NULL /\ stats.result.latestTime = NULL
    ELSE \E i \in StatSucceeded :
           /\ \A j \in StatSucceeded :
                /\ GetTime(stats.records[j].time) <= GetTime(stats.records[i].time)
                /\ GetTime(stats.records[j].time) = GetTime(stats.records[i].time)
                     => i <= j
           /\ stats.result.latestValue = Num(stats.records[i].value)
           /\ stats.result.latestTime = stats.records[i].time

\* Two successful records share the maximum timestamp inside a window and the
\* earlier one in input order, with a different value, was returned.
C4_Witness ==
  /\ stats.pc = "done"
  /\ stats.timeRange # NULL
  /\ \E i, j \in StatSucceeded :
       /\ i < j
       /\ stats.records[i].time = stats.records[j].time
       /\ stats.records[i].value # stats.records[j].value
       /\ stats.result.latestValue = Num(stats.records[i].value)
       /\ stats.result.latestTime = stats.records[i].time
       /\ \A k \in StatSucceeded :
            GetTime(stats.records[k].time) <= GetTime(stats.records[i].time)

(***************************************************************************)
(* PingChart.tsx, chartData: the stride downsampling of lines 169-176.     *)
(***************************************************************************)
MaxStrideLen == 8
MaxStridePoints == 6

\* The rows entering the step: n rows one second apart.
StrideRows(n) == [i \in 1..n |-> [k \in {"time"} |-> ToISOString(i * 1000)]]

\* pingChartMaxPoints is a number of the configuration, set from the settings
\* panel by Number(text): whole numbers and halves, as fractions.
MaxPointsValues ==
  {<<n, 1>> : n \in (-1)..MaxStridePoints} \cup
  {<<2 * n - 1, 2>> : n \in 1..MaxStridePoints}

\* Math.floor(a / b) for b > 0, the rounding a slip would use.
FloorDiv(a, b) == a \div b

\* Math.ceil(a / b) for b > 0.
CeilDiv(a, b) == -((-a) \div b)

\* for (let i = 0; i < full.length; i += samplingFactor) sampledData.push(full[i])
RECURSIVE StrideLoop(_, _, _, _)
StrideLoop(full, i, samplingFactor, sampledData) ==
  IF i < Len(full)
  THEN StrideLoop(full, i + samplingFactor, samplingFactor,
                  Append(sampledData, full[i + 1]))
  ELSE sampledData

\* full.length > pingChartMaxPoints && pingChartMaxPoints > 0, then
\* samplingFactor = Math.ceil(full.length / pingChartMaxPoints).
StrideSample(full, pingChartMaxPoints) ==
  IF /\ Len(full) * pingChartMaxPoints[2] > pingChartMaxPoints[1]
     /\ pingChartMaxPoints[1] > 0
  THEN StrideLoop(full, 0,
                  CeilDiv(Len(full) * pingChartMaxPoints[2], pingChartMaxPoints[1]),
                  <<>>)
  ELSE full

StrideInit ==
  \E n \in 0..MaxStrideLen, maxPoints \in MaxPointsValues :
    stride = [pc |-> "call", full |-> StrideRows(n),
              pingChartMaxPoints |-> maxPoints, out |-> <<>>]

NotStride == <<ping, stats, interp, fill, retention, peak, chart, loss, panel, legend>>

StrideStep ==
  /\ stride.pc = "call"
  /\ stride' = [stride EXCEPT
        !.pc = "done",
        !.out = StrideSample(stride.full, stride.pingChartMaxPoints)]
  /\ UNCHANGED NotStride

InitStride ==
  /\ StrideInit
  /\ ping = Idle /\ stats = Idle /\ interp = Idle
  /\ fill = Idle /\ retention = Idle /\ peak = Idle /\ chart = Idle /\ loss = Idle /\ panel = Idle /\ legend = Idle

NextStride == StrideStep

SpecStride == InitStride /\ [][NextStride]_vars

(***************************************************************************)
(* Claims about the stride downsampling.                                   *)
(***************************************************************************)
\* C5 as stated: the stride step yields at most maxPoints rows for every input
\* length and every maxPoints > 0, and the input rows unchanged for
\* maxPoints <= 0.
C5_StrideWithinBudget ==
  stride.pc = "done" =>
    /\ stride.pingChartMaxPoints[1] > 0 =>
         Len(stride.out) * stride.pingChartMaxPoints[2] <= stride.pingChartMaxPoints[1]
    /\ stride.pingChartMaxPoints[1] <= 0 => stride.out = stride.full

\* C5 amended: the stride step yields at most maxPoints rows for every input
\* length and every whole-number maxPoints > 0 (for a fractional maxPoints > 0
\* at most maxPoints rounded up), and the input rows unchanged for
\* maxPoints <= 0.
C5_StrideWithinWholeBudget ==
  stride.pc = "done" =>
    /\ stride.pingChartMaxPoints[1] > 0 =>
         /\ stride.pingChartMaxPoints[2] = 1 =>
              Len(stride.out) <= stride.pingChartMaxPoints[1]
         /\ Len(stride.out) * stride.pingChartMaxPoints[2]
              < stride.pingChartMaxPoints[1] + stride.pingChartMaxPoints[2]
    /\ stride.pingChartMaxPoints[1] <= 0 => stride.out = stride.full

\* An input longer than a whole-number budget was thinned to exactly the
\* budget, the last input row being dropped.
C5_Witness ==
  /\ stride.pc = "done"
  /\ stride.pingChartMaxPoints[2] = 1
  /\ stride.pingChartMaxPoints[1] > 1
  /\ Len(stride.full) > stride.pingChartMaxPoints[1]
  /\ Len(stride.out) = stride.pingChartMaxPoints[1]
  /\ stride.out[1] = stride.full[1]
  /\ stride.out[Len(stride.out)] # stride.full[Len(stride.full)]

(***************************************************************************)
(* localeUtils.ts, interpolateNullsLinear.                                 *)
(***************************************************************************)
MaxInterpRows == 4
InterpTimes == {0, 60000, 120000, 2400000}
InterpCells == {NULL, Num(10), Num(40)}
InterpKey == "1"

DefaultMultiplier == 6
DefaultMinCapMs == 120000
DefaultMaxCapMs == 1800000

\* An optional number: <<>> for undefined, <<n>> for n.
UNDEFINED == <<>>
Some(n) == <<n>>
\* x ?? d
OrDefault(x, d) == IF x = UNDEFINED THEN d ELSE x[1]

\* The options argument: undefined, a number (the unified cap), or an object.
OptionsObject(kind, maxGapMs, mult, lo, hi) ==
  [kind |-> kind, maxGapMs |-> maxGapMs, maxGapMultiplier |-> mult,
   minCapMs |-> lo, maxCapMs |-> hi]

InterpOptions ==
  { OptionsObject("undefined", UNDEFINED, UNDEFINED, UNDEFINED, UNDEFINED),
    OptionsObject("number", Some(0), UNDEFINED, UNDEFINED, UNDEFINED),
    OptionsObject("number", Some(60000), UNDEFINED, UNDEFINED, UNDEFINED),
    OptionsObject("object", UNDEFINED, Some(6), Some(120000), Some(1800000)),
    OptionsObject("object", UNDEFINED, Some(1), Some(1000), Some(90000)),
    OptionsObject("object", UNDEFINED, Some(1), Some(1000), Some(2400000)) }

\* The rows: the key holds a number or null, or is absent.
InterpRowValues ==
  {[k \in {"time", InterpKey} |-> IF k = "time" THEN ToISOString(t) ELSE c] :
     t \in InterpTimes, c \in InterpCells} \cup
  {[k \in {"time"} |-> ToISOString(t)] : t \in InterpTimes}

\* Rows in non-decreasing time order, as the callers pass them.
TimeSorted(rows) ==
  \A i \in 1..(Len(rows) - 1) :
    GetTime(rows[i]["time"]) <= GetTime(rows[i + 1]["time"])

\* typeof v === "number" && Number.isFinite(v), for v = rows[i][key]
IsValidCell(row, key) == key \in DOMAIN row /\ IsNumber(row[key])

\* validIdx: the indices of the rows whose key holds a number, ascending.
RECURSIVE validIdxUpTo(_, _, _)
validIdxUpTo(rows, key, n) ==
  IF n = 0 THEN <<>>
  ELSE IF IsValidCell(rows[n], key)
       THEN Append(validIdxUpTo(rows, key, n - 1), n)
       ELSE validIdxUpTo(rows, key, n - 1)

validIdx(rows, key) == validIdxUpTo(rows, key, Len(rows))

\* times[i]
TimeAt(rows, i) == GetTime(rows[i]["time"])

\* gaps: t1 - t0 of the consecutive valid pairs with t1 > t0, in row order.
gapsOf(rows, key) ==
  LET v == validIdx(rows, key)
      all == [s \in 1..(Len(v) - 1) |-> TimeAt(rows, v[s + 1]) - TimeAt(rows, v[s])]
  IN SelectSeq(all, LAMBDA g : g > 0)

\* gaps.sort((a, b) => a - b)
RECURSIVE InsertInt(_, _)
InsertInt(sorted, x) ==
  IF sorted = <<>> THEN <<x>>
  ELSE IF sorted[Len(sorted)] <= x THEN Append(sorted, x)
       ELSE Append(InsertInt(SubSeq(sorted, 1, Len(sorted) - 1), x),
                   sorted[Len(sorted)])

RECURSIVE SortInts(_)
SortInts(q) ==
  IF q = <<>> THEN <<>>
  ELSE InsertInt(SortInts(SubSeq(q, 1, Len(q) - 1)), q[Len(q)])

\* gaps[(gaps.length / 2) | 0] of the sorted gaps
medianOf(gaps) == SortInts(gaps)[(Len(gaps) \div 2) + 1]

\* Math.max(lo, Math.min(hi, v))
clamp(v, lo, hi) == Max(lo, Min(hi, v))

\* perKeyMaxGap for a key with at least two valid rows: [skip |-> TRUE] stands
\* for the continue of line 397, cap is the value used at line 414.
perKeyMaxGap(rows, key, opts) ==
  IF opts.maxGapMs # UNDEFINED THEN [skip |-> FALSE, cap |-> opts.maxGapMs[1]]
  ELSE IF Len(gapsOf(rows, key)) = 0 THEN [skip |-> TRUE, cap |-> 0]
  ELSE [skip |-> FALSE,
        cap |-> clamp(medianOf(gapsOf(rows, key))
                        * OrDefault(opts.maxGapMultiplier, DefaultMultiplier),
                      OrDefault(opts.minCapMs, DefaultMinCapMs),
                      OrDefault(opts.maxCapMs, DefaultMaxCapMs))]

\* perKeyMaxGap && t1 - t0 > perKeyMaxGap: a cap of 0 is falsy and blocks nothing.
GapTooWide(cap, t0, t1) == cap # 0 /\ t1 - t0 > cap

\* An interpolation that starts from the wrong end point.
LerpFromV1(v0, v1, tj, t0, t1) ==
  Reduced(<<v1[1] * v0[2] * (t1 - t0) + (v1[1] * v0[2] - v0[1] * v1[2]) * (tj - t0),
            v0[2] * v1[2] * (t1 - t0)>>)

\* v0 + (v1 - v0) * ((tj - t0) / (t1 - t0)), as an exact fraction
Lerp(v0, v1, tj, t0, t1) ==
  Reduced(<<v0[1] * v1[2] * (t1 - t0) + (v1[1] * v0[2] - v0[1] * v1[2]) * (tj - t0),
            v0[2] * v1[2] * (t1 - t0)>>)

\* Row j of out after the loops of lines 374-422 have run for one key.
InterpRowFor(rows, out, key, opts, j) ==
  LET v == validIdx(rows, key)
      S == {s \in 1..(Len(v) - 1) : v[s] < j /\ j < v[s + 1]}
  IN IF Len(v) < 2 \/ S = {} THEN out[j]
     ELSE LET s == CHOOSE x \in S : TRUE
              t0 == TimeAt(rows, v[s])
              t1 == TimeAt(rows, v[s + 1])
              pk == perKeyMaxGap(rows, key, opts)
          IN IF pk.skip \/ t1 <= t0 \/ GapTooWide(pk.cap, t0, t1) THEN out[j]
             ELSE Spread(out[j], key,
                         Lerp(rows[v[s]][key], rows[v[s + 1]][key],
                              TimeAt(rows, j), t0, t1))

RECURSIVE InterpKeys(_, _, _, _)
InterpKeys(rows, out, keys, opts) ==
  IF keys = <<>> THEN out
  ELSE InterpKeys(rows,
                  [j \in 1..Len(rows) |-> InterpRowFor(rows, out, keys[1], opts, j)],
                  Tail(keys), opts)

interpolateNullsLinear(rows, keys, options) ==
  IF Len(rows) = 0 \/ Len(keys) = 0 THEN rows
  ELSE InterpKeys(rows, rows, keys, options)

\* rows.map((r) => ({ ...r })), line 360 with every row handed on as it is.
ShareRows(rows) == [items |-> rows, fresh |-> FALSE]

\* rows.map((r) => ({ ...r })), line 360: a new array of new row objects.
CopyRows(rows) == [items |-> rows, fresh |-> TRUE]

InterpKeyLists == {<<>>, <<InterpKey>>}

InterpInit ==
  \E options \in InterpOptions, keys \in InterpKeyLists, arg \in ArgKinds :
    \E rows \in IF arg = "array"
                THEN {q \in SeqsUpTo(InterpRowValues, MaxInterpRows) : TimeSorted(q)}
                ELSE {<<>>} :
      interp = [pc |-> "call", arg |-> arg, rows |-> rows, keys |-> keys,
                options |-> options, out |-> <<>>, same |-> FALSE]

NotInterp == <<ping, stats, stride, fill, retention, peak, chart, loss, panel, legend>>

\* Line 355: no rows (an empty array, null or undefined) or no keys; the
\* argument is returned as it is.
InterpEmpty ==
  /\ interp.pc = "call"
  /\ interp.arg \in NoArrayKinds \/ Len(interp.rows) = 0 \/ Len(interp.keys) = 0
  /\ interp' = [interp EXCEPT !.pc = "done", !.out = interp.rows, !.same = TRUE]
  /\ UNCHANGED NotInterp

\* Lines 357-424. The loop of lines 416-420 writes into the rows of out; rows
\* of out that are the caller's own objects carry the writes to the argument.
InterpCall ==
  /\ interp.pc = "call"
  /\ interp.arg = "array" /\ Len(interp.rows) > 0 /\ Len(interp.keys) > 0
  /\ LET copy == CopyRows(interp.rows)
         out == InterpKeys(interp.rows, copy.items, interp.keys, interp.options)
     IN interp' = [interp EXCEPT
           !.pc = "done",
           !.out = out,
           !.rows = IF copy.fresh THEN @ ELSE out,
           !.same = FALSE]
  /\ UNCHANGED NotInterp

InitInterp ==
  /\ InterpInit
  /\ ping = Idle /\ stats = Idle /\ stride = Idle
  /\ fill = Idle /\ retention = Idle /\ peak = Idle /\ chart = Idle /\ loss = Idle /\ panel = Idle /\ legend = Idle

NextInterp == InterpEmpty \/ InterpCall

SpecInterp == InitInterp /\ [][NextInterp]_vars

(***************************************************************************)
(* Claims about interpolateNullsLinear.                                    *)
(***************************************************************************)
\* The pairs <<i0, i1>> of consecutive valid rows of the input for the key.
InterpPairs ==
  {p \in (1..Len(interp.rows)) \X (1..Len(interp.rows)) :
     /\ p[1] < p[2]
     /\ IsValidCell(interp.rows[p[1]], InterpKey)
     /\ IsValidCell(interp.rows[p[2]], InterpKey)
     /\ \A m \in (p[1] + 1)..(p[2] - 1) : ~IsValidCell(interp.rows[m], InterpKey)}

\* Cell j of the output was written by the interpolation.
InterpWritten(j) ==
  /\ ~IsValidCell(interp.rows[j], InterpKey)
  /\ IsValidCell(interp.out[j], InterpKey)

FracMin(a, b) == IF FracLeq(a, b) THEN a ELSE b
FracMax(a, b) == IF FracLeq(a, b) THEN b ELSE a

\* C6: for time-sorted rows every value written between two consecutive valid
\* samples lies between the smaller and the larger of the two sample values.
C6_NoOvershoot ==
  interp.pc = "done" =>
    /\ Len(interp.out) = Len(interp.rows)
    /\ \A j \in 1..Len(interp.rows) :
         InterpWritten(j) =>
           \E p \in InterpPairs :
             /\ p[1] < j /\ j < p[2]
             /\ FracLeq(FracMin(interp.rows[p[1]][InterpKey],
                                interp.rows[p[2]][InterpKey]),
                        interp.out[j][InterpKey])
             /\ FracLeq(interp.out[j][InterpKey],
                        FracMax(interp.rows[p[1]][InterpKey],
                                interp.rows[p[2]][InterpKey]))

\* Two cells between the samples 10 and 40 were filled, strictly between the
\* two values and in increasing order.
C6_Witness ==
  /\ interp.pc = "done"
  /\ Len(interp.rows) = 4
  /\ IsValidCell(interp.rows[1], InterpKey)
  /\ IsValidCell(interp.rows[4], InterpKey)
  /\ interp.rows[1][InterpKey] = Num(10)
  /\ interp.rows[4][InterpKey] = Num(40)
  /\ InterpWritten(2) /\ InterpWritten(3)
  /\ ~FracLeq(interp.out[2][InterpKey], Num(10))
  /\ ~FracLeq(interp.out[3][InterpKey], interp.out[2][InterpKey])
  /\ ~FracLeq(Num(40), interp.out[3][InterpKey])

\* The cap in force for the key: the unified cap when one was supplied, else
\* the cap derived from the key's median gap.
InterpCapInForce == perKeyMaxGap(interp.rows, InterpKey, interp.options)

\* C7: every cell between two consecutive valid samples whose time gap exceeds
\* the cap in force (derived per key, or any unified cap the caller supplied)
\* is left untouched.
C7_WideGapUntouched ==
  interp.pc = "done" =>
    \A p \in InterpPairs :
      (/\ ~InterpCapInForce.skip
       /\ TimeAt(interp.rows, p[2]) - TimeAt(interp.rows, p[1])
            > InterpCapInForce.cap) =>
        \A j \in (p[1] + 1)..(p[2] - 1) : interp.out[j] = interp.rows[j]

(***************************************************************************)
(* localeUtils.ts, fillMissingTimePoints.                                  *)
(***************************************************************************)
MaxFillRows == 2
MaxTotalSec == 5
\* The cap on the grid loop of lines 294-296, which need not end by itself.
MaxGrid == 8
FillTimes == {0, 1000, 2500, 6000}
FillIntervals == {-1, 0, 1, 2, 3}
FillKey == "cpu"

\* The rows: a time and one numeric field.
FillRowValues ==
  {[k \in {"time", FillKey} |-> IF k = "time" THEN ToISOString(t) ELSE Num(v)] :
     t \in FillTimes, v \in {1, 2}}

\* totalSeconds: null or a number.
FillTotals == {NULL} \cup {Some(n) : n \in 0..MaxTotalSec}

\* matchToleranceSec: undefined or a number.
FillTolerances == {UNDEFINED, Some(1)}

\* createNullTemplate of a row of numbers: time keys dropped, numbers nulled.
createNullTemplate(obj) ==
  [k \in DOMAIN obj \ {"time", "updated_at"} |-> NULL]

\* A fixed-length start that includes the point end - totalSeconds.
\* The start taken from the first row in either mode.
StartTimeFromFirst(firstMs, end, interval, totalSeconds) == firstMs

StartTimeInclusive(firstMs, end, interval, totalSeconds) ==
  IF totalSeconds # NULL /\ totalSeconds[1] > 0
  THEN end - totalSeconds[1] * 1000
  ELSE firstMs

\* start, lines 287-290
StartTime(firstMs, end, interval, totalSeconds) ==
  IF totalSeconds # NULL /\ totalSeconds[1] > 0
  THEN end - totalSeconds[1] * 1000 + interval
  ELSE firstMs

\* The while loop of lines 308-313: the first index from dataIdx on whose row
\* is not older than limit (indices from 1; Len + 1 when there is none).
RECURSIVE AdvanceIdx(_, _, _)
AdvanceIdx(timedData, dataIdx, limit) ==
  IF dataIdx <= Len(timedData) /\ TimeAt(timedData, dataIdx) < limit
  THEN AdvanceIdx(timedData, dataIdx + 1, limit)
  ELSE dataIdx

\* timePoints.map(...), lines 304-330, from the k-th time point on.
RECURSIVE FillFrom(_, _, _, _, _, _, _)
FillFrom(timedData, timePoints, k, dataIdx, matchToleranceMs, nullTemplate, acc) ==
  IF k > Len(timePoints) THEN acc
  ELSE LET t == timePoints[k]
           idx == AdvanceIdx(timedData, dataIdx, t - matchToleranceMs)
           found == /\ idx <= Len(timedData)
                    /\ Abs(TimeAt(timedData, idx) - t) <= matchToleranceMs
           row == IF found THEN Spread(timedData[idx], "time", ToISOString(t))
                  ELSE Spread(nullTemplate, "time", ToISOString(t))
       IN FillFrom(timedData, timePoints, k + 1, idx, matchToleranceMs,
                   nullTemplate, Append(acc, row))

FillInit ==
  \E intervalSec \in FillIntervals,
     totalSeconds \in FillTotals, matchToleranceSec \in FillTolerances :
    \E arg \in ArgKinds :
      \E data \in IF arg = "array" THEN SeqsUpTo(FillRowValues, MaxFillRows)
                  ELSE {<<>>} :
        fill = [pc |-> "call", arg |-> arg, data |-> data, intervalSec |-> intervalSec,
                totalSeconds |-> totalSeconds, matchToleranceSec |-> matchToleranceSec,
                timedData |-> <<>>, end |-> 0, t |-> 0, timePoints |-> <<>>,
                filled |-> <<>>]

NotFill == <<ping, stats, stride, interp, retention, peak, chart, loss, panel, legend>>

\* Line 272: no rows, the result is [].
FillEmpty ==
  /\ fill.pc = "call"
  /\ fill.arg = "array"
  /\ Len(fill.data) = 0
  /\ fill' = [fill EXCEPT !.pc = "done"]
  /\ UNCHANGED NotFill

\* Line 272 reads data.length before anything else; on null or undefined that
\* is a TypeError.
FillThrow ==
  /\ fill.pc = "call"
  /\ fill.arg \in NoArrayKinds
  /\ fill' = [fill EXCEPT !.pc = "threw"]
  /\ UNCHANGED NotFill

\* Lines 274-294: sort by time, fix end and start.
FillStart ==
  /\ fill.pc = "call"
  /\ Len(fill.data) > 0
  /\ LET timedData == SortByTime(fill.data)
         end == TimeAt(timedData, Len(timedData))
     IN fill' = [fill EXCEPT
           !.pc = "grid",
           !.timedData = timedData,
           !.end = end,
           !.t = StartTime(TimeAt(timedData, 1), end, fill.intervalSec * 1000,
                           fill.totalSeconds)]
  /\ UNCHANGED NotFill

\* One iteration of for (let t = start; t <= end; t += interval).
FillGridStep ==
  /\ fill.pc = "grid"
  /\ fill.t <= fill.end
  /\ Len(fill.timePoints) < MaxGrid
  /\ fill' = [fill EXCEPT
        !.timePoints = Append(@, fill.t),
        !.t = @ + fill.intervalSec * 1000]
  /\ UNCHANGED NotFill

\* Lines 298-332, once the grid loop has ended.
FillMap ==
  /\ fill.pc = "grid"
  /\ fill.t > fill.end
  /\ fill' = [fill EXCEPT
        !.pc = "done",
        !.filled =
           FillFrom(fill.timedData, fill.timePoints, 1, 1,
                    OrDefault(fill.matchToleranceSec, fill.intervalSec) * 1000,
                    createNullTemplate(fill.timedData[Len(fill.timedData)]),
                    <<>>)]
  /\ UNCHANGED NotFill

InitFill ==
  /\ FillInit
  /\ ping = Idle /\ stats = Idle /\ stride = Idle
  /\ interp = Idle /\ retention = Idle /\ peak = Idle /\ chart = Idle /\ loss = Idle /\ panel = Idle /\ legend = Idle

NextFill == FillEmpty \/ FillThrow \/ FillStart \/ FillGridStep \/ FillMap

SpecFill == InitFill /\ [][NextFill]_vars

(***************************************************************************)
(* Claims about fillMissingTimePoints.                                     *)
(***************************************************************************)
FillFixedMode ==
  /\ Len(fill.data) > 0
  /\ fill.intervalSec > 0
  /\ fill.totalSeconds # NULL
  /\ fill.totalSeconds[1] > 0

MaxRetRows == 4
RetTimes == {0, 20000, 60000, 80000, 300000, 320000}
RetHours == {0, 72, 73, 168, 169, 720, 721, 2160, 2161}

RetRowValues == {[k \in {"time"} |-> ToISOString(t)] : t \in RetTimes}

\* The table read with < in place of <=.
SampleIntervalStrict(retentionHours, isMiniChart) ==
  IF isMiniChart
  THEN IF retentionHours < 72 THEN 5
       ELSE IF retentionHours < 168 THEN 30
       ELSE IF retentionHours < 720 THEN 60
       ELSE IF retentionHours < 2160 THEN 120
       ELSE 180
  ELSE IF retentionHours < 72 THEN 1
       ELSE IF retentionHours < 168 THEN 15
       ELSE IF retentionHours < 720 THEN 30
       ELSE IF retentionHours < 2160 THEN 60
       ELSE 90

\* sampleInterval in minutes, lines 559-588
SampleInterval(retentionHours, isMiniChart) ==
  IF isMiniChart
  THEN IF retentionHours <= 72 THEN 5
       ELSE IF retentionHours <= 168 THEN 30
       ELSE IF retentionHours <= 720 THEN 60
       ELSE IF retentionHours <= 2160 THEN 120
       ELSE 180
  ELSE IF retentionHours <= 72 THEN 1
       ELSE IF retentionHours <= 168 THEN 15
       ELSE IF retentionHours <= 720 THEN 30
       ELSE IF retentionHours <= 2160 THEN 60
       ELSE 90

\* The rows of one input array are distinct objects: each carries its position
\* in a field of its own, so that two rows of equal time stay distinguishable.
TagRows(q) == [i \in 1..Len(q) |-> Spread(q[i], "cpu", Num(i))]

RetentionInit ==
  \E retentionHours \in RetHours, isMiniChart \in BOOLEAN, arg \in ArgKinds :
    \E q \in IF arg = "array"
             THEN {q \in SeqsUpTo(RetRowValues, MaxRetRows) : TimeSorted(q)}
             ELSE {<<>>} :
      retention = [pc |-> "call", arg |-> arg, same |-> FALSE,
                   data |-> TagRows(q), retentionHours |-> retentionHours,
                   isMiniChart |-> isMiniChart, sampleInterval |-> 0,
                   result |-> <<>>, lastSampledTime |-> 0, i |-> 1]

NotRetention == <<ping, stats, stride, interp, fill, peak, chart, loss, panel, legend>>

\* Line 557: no data (an empty array, null or undefined), the result is a
\* new [].
RetEmpty ==
  /\ retention.pc = "call"
  /\ retention.arg \in NoArrayKinds \/ Len(retention.data) = 0
  /\ retention' = [retention EXCEPT !.pc = "done"]
  /\ UNCHANGED NotRetention

\* Lines 559-588: the sampling interval is chosen.
RetSelect ==
  /\ retention.pc = "call"
  /\ retention.arg = "array" /\ Len(retention.data) > 0
  /\ retention' = [retention EXCEPT
        !.pc = "selected",
        !.sampleInterval = SampleInterval(retention.retentionHours,
                                          retention.isMiniChart)]
  /\ UNCHANGED NotRetention

\* Line 591: one or two rows are returned as they are.
RetShort ==
  /\ retention.pc = "selected"
  /\ Len(retention.data) <= 2
  /\ retention' = [retention EXCEPT !.pc = "done", !.result = retention.data,
                                    !.same = TRUE]
  /\ UNCHANGED NotRetention

\* Lines 593-598: the first row is kept.
RetFirst ==
  /\ retention.pc = "selected"
  /\ Len(retention.data) > 2
  /\ retention' = [retention EXCEPT
        !.pc = "walk",
        !.result = <<retention.data[1]>>,
        !.lastSampledTime = TimeAt(retention.data, 1),
        !.i = 1]
  /\ UNCHANGED NotRetention

\* One iteration of for (let i = 1; i < data.length - 1; i++), lines 601-609
\* (i counts from 0 as in the source; data[i] is the model's data[i + 1]).
RetWalkStep ==
  /\ retention.pc = "walk"
  /\ retention.i < Len(retention.data) - 1
  /\ LET currentTime == TimeAt(retention.data, retention.i + 1)
         keep == currentTime - retention.lastSampledTime
                   >= retention.sampleInterval * 60 * 1000
     IN retention' = [retention EXCEPT
           !.i = @ + 1,
           !.result = IF keep THEN Append(@, retention.data[retention.i + 1]) ELSE @,
           !.lastSampledTime = IF keep THEN currentTime ELSE @]
  /\ UNCHANGED NotRetention

\* The test of lines 617-620 without its result.length > 1.
TooCloseUnguarded(resultLength, lastTime, lastSampledTime, sampleIntervalMs) ==
  2 * (lastTime - lastSampledTime) < sampleIntervalMs

\* The test of lines 617-620 against a quarter of the interval.
TooCloseQuarter(resultLength, lastTime, lastSampledTime, sampleIntervalMs) ==
  /\ resultLength > 1
  /\ 4 * (lastTime - lastSampledTime) < sampleIntervalMs

\* Lines 617-620: result.length > 1 &&
\* lastTime - lastSampledTime < sampleIntervalMs / 2 (doubled to stay integral).
TooClose(resultLength, lastTime, lastSampledTime, sampleIntervalMs) ==
  /\ resultLength > 1
  /\ 2 * (lastTime - lastSampledTime) < sampleIntervalMs

\* Lines 611-627: the last row replaces the last kept row or is appended.
RetLast ==
  /\ retention.pc = "walk"
  /\ retention.i >= Len(retention.data) - 1
  /\ LET lastPoint == retention.data[Len(retention.data)]
         lastTime == GetTime(lastPoint["time"])
         tooClose == TooClose(Len(retention.result), lastTime,
                              retention.lastSampledTime,
                              retention.sampleInterval * 60 * 1000)
     IN retention' = [retention EXCEPT
           !.pc = "done",
           !.result = IF tooClose
                      THEN [@ EXCEPT ![Len(@)] = lastPoint]
                      ELSE Append(@, lastPoint)]
  /\ UNCHANGED NotRetention

InitRetention ==
  /\ RetentionInit
  /\ ping = Idle /\ stats = Idle /\ stride = Idle
  /\ interp = Idle /\ fill = Idle /\ peak = Idle /\ chart = Idle /\ loss = Idle /\ panel = Idle /\ legend = Idle

NextRetention ==
  RetEmpty \/ RetSelect \/ RetShort \/ RetFirst \/ RetWalkStep \/ RetLast

SpecRetention == InitRetention /\ [][NextRetention]_vars

(***************************************************************************)
(* Claims about sampleDataByRetention.                                     *)
(***************************************************************************)
\* The table of the claim: the thresholds in hours and the interval of each
\* tier in minutes, the last tier being the one above every threshold.
RetThresholds == <<72, 168, 720, 2160>>
RetMainMinutes == <<1, 15, 30, 60, 90>>
RetMiniMinutes == <<5, 30, 60, 120, 180>>

\* The tier of a retention: one more than the number of thresholds below it.
RetTier(hours) ==
  1 + Cardinality({k \in 1..Len(RetThresholds) : RetThresholds[k] < hours})

\* C10: the sampling interval is the table's: main 1/15/30/60/90 and mini
\* 5/30/60/120/180 minutes for retentionHours <= 72, <= 168, <= 720, <= 2160
\* and above; 72 selects the smallest tier and 73 the next one.
C10_IntervalTable ==
  retention.pc \in {"selected", "walk", "done"} /\ Len(retention.data) > 0 =>
    /\ retention.sampleInterval =
         IF retention.isMiniChart
         THEN RetMiniMinutes[RetTier(retention.retentionHours)]
         ELSE RetMainMinutes[RetTier(retention.retentionHours)]
    /\ retention.retentionHours = 72 =>
         retention.sampleInterval = IF retention.isMiniChart THEN 5 ELSE 1
    /\ retention.retentionHours = 73 =>
         retention.sampleInterval = IF retention.isMiniChart THEN 30 ELSE 15

\* A main chart with a retention of 73 hours was sampled at 15 minutes.
C10_Witness ==
  /\ retention.pc = "done"
  /\ retention.retentionHours = 73
  /\ ~retention.isMiniChart
  /\ Len(retention.data) = 4
  /\ retention.sampleInterval = 15
  /\ Len(retention.result) = 2

\* The call has returned a result for a non-empty input.
RetReturned == retention.pc = "done" /\ Len(retention.data) > 0

\* C11: for every non-empty input the output begins with the first input row
\* and ends with the last input row.
C11_KeepsFirstAndLast ==
  RetReturned =>
    /\ Len(retention.result) > 0
    /\ retention.result[1] = retention.data[1]
    /\ retention.result[Len(retention.result)] = retention.data[Len(retention.data)]

\* The walk dropped rows and the last row took the place of a kept row, the
\* first row staying where it was.
C11_Witness ==
  /\ RetReturned
  /\ Len(retention.data) = 4
  /\ Len(retention.result) = 2
  /\ TimeAt(retention.data, 2) = retention.lastSampledTime
  /\ retention.lastSampledTime > TimeAt(retention.data, 1)
  /\ retention.result[1] = retention.data[1]
  /\ retention.result[2] = retention.data[4]

\* The step that settles the last row: from the walk to the return.
RetLastStep == retention.pc = "walk" /\ retention'.pc = "done"

\* Twice the distance of the two rows at the end of a row list.
TwiceEndGap(r) == 2 * (TimeAt(r, Len(r)) - TimeAt(r, Len(r) - 1))

MaxPeakRows == 4
PeakKey == "1"
PeakValues == {0, 5, 10, 20}
PeakStepMs == 60000
DefaultAlpha == <<1, 10>>
DefaultWindowSize == 15
DefaultSpikeThreshold == <<3, 10>>
NearZeroLimit == 10

FracAdd(a, b) == Reduced(<<a[1] * b[2] + b[1] * a[2], a[2] * b[2]>>)
FracSub(a, b) == Reduced(<<a[1] * b[2] - b[1] * a[2], a[2] * b[2]>>)
FracMul(a, b) == Reduced(<<a[1] * b[1], a[2] * b[2]>>)
FracAbs(a) == <<Abs(a[1]), a[2]>>
FracLt(a, b) == a[1] * b[2] < b[1] * a[2]

\* Math.round(x * 100) / 100; Math.round is floor(y + 1/2).
RoundTo2(x) == Reduced(<<(x[1] * 100 * 2 + x[2]) \div (2 * x[2]), 100>>)

\* The cells a row can have under the key: absent, null or a number.
PeakCells ==
  {[k \in {} |-> NULL]} \cup {[k \in {PeakKey} |-> c] : c \in {NULL} \cup {Num(v) : v \in PeakValues}}

\* Row lists: the i-th row is one sampling step after the one before it.
PeakRowsOf(cells) ==
  [i \in 1..Len(cells) |-> Spread(cells[i], "time", ToISOString(i * PeakStepMs))]

PeakAlphas == {DefaultAlpha, <<1, 2>>}
PeakWindows == {3, DefaultWindowSize}
PeakKeyLists == {<<>>, <<PeakKey>>}

\* The numeric cells of the window around i, i left out (lines 458-471).
RECURSIVE neighborValues(_, _, _, _, _)
neighborValues(result, key, i, j, hi) ==
  IF j > hi THEN <<>>
  ELSE LET rest == neighborValues(result, key, i, j + 1, hi)
       IN IF j # i /\ IsValidCell(result[j], key)
          THEN <<result[j][key]>> \o rest
          ELSE rest

RECURSIVE FracSum(_)
FracSum(q) == IF q = <<>> THEN Num(0) ELSE FracAdd(q[1], FracSum(Tail(q)))

\* Lines 457-491 with a single neighbour taken as enough for the test.
IsSpikeOfAnyNeighbor(result, key, i, halfWindow, spikeThreshold) ==
  /\ IsValidCell(result[i], key)
  /\ LET nv == neighborValues(result, key, i, Max(1, i - halfWindow),
                              Min(Len(result), i + halfWindow))
         mean == IF Len(nv) > 0 THEN FracMul(FracSum(nv), <<1, Len(nv)>>) ELSE Num(0)
     IN /\ Len(nv) >= 1
        /\ IF FracLt(Num(0), mean)
           THEN FracLt(FracMul(spikeThreshold, mean),
                       FracAbs(FracSub(result[i][key], mean)))
           ELSE FracLt(Num(NearZeroLimit), FracAbs(result[i][key]))

\* Lines 457-491: is the sample at i a spike of its window?
IsSpike(result, key, i, halfWindow, spikeThreshold) ==
  /\ IsValidCell(result[i], key)
  /\ LET nv == neighborValues(result, key, i, Max(1, i - halfWindow),
                              Min(Len(result), i + halfWindow))
         mean == IF Len(nv) > 0 THEN FracMul(FracSum(nv), <<1, Len(nv)>>) ELSE Num(0)
     IN /\ Len(nv) >= 2
        /\ IF FracLt(Num(0), mean)
           THEN FracLt(FracMul(spikeThreshold, mean),
                       FracAbs(FracSub(result[i][key], mean)))
           ELSE FracLt(Num(NearZeroLimit), FracAbs(result[i][key]))

\* Lines 453-493: the detection loop, each sample judged against the result
\* as the loop has left it so far.
RECURSIVE DetectFrom(_, _, _, _, _)
DetectFrom(result, key, i, halfWindow, spikeThreshold) ==
  IF i > Len(result) THEN result
  ELSE DetectFrom(
         IF IsSpike(result, key, i, halfWindow, spikeThreshold)
         THEN [result EXCEPT ![i] = Spread(@, key, NULL)]
         ELSE result,
         key, i + 1, halfWindow, spikeThreshold)

\* Lines 508-509 with the previous average at its full weight.
NextEwmaUnweighted(ewma, currentValue, alpha) ==
  IF ewma = NULL
  THEN RoundTo2(currentValue)
  ELSE RoundTo2(FracAdd(FracMul(alpha, currentValue), ewma))

\* Lines 503-510 with the average started anew at every sample.
NextEwmaRestart(ewma, currentValue, alpha) == RoundTo2(currentValue)

\* Lines 503-510.
NextEwma(ewma, currentValue, alpha) ==
  IF ewma = NULL
  THEN RoundTo2(currentValue)
  ELSE RoundTo2(FracAdd(FracMul(alpha, currentValue),
                        FracMul(FracSub(Num(1), alpha), ewma)))

\* Lines 496-517 without the branch of lines 512-514 that fills the cells
\* without a number.
RECURSIVE EwmaFromNoFill(_, _, _, _, _)
EwmaFromNoFill(result, key, i, ewma, alpha) ==
  IF i > Len(result) THEN result
  ELSE IF IsValidCell(result[i], key)
       THEN LET e == NextEwma(ewma, result[i][key], alpha)
            IN EwmaFromNoFill([result EXCEPT ![i] = Spread(@, key, e)],
                              key, i + 1, e, alpha)
       ELSE EwmaFromNoFill(result, key, i + 1, ewma, alpha)

\* Lines 496-517: the smoothing and filling loop.
RECURSIVE EwmaFrom(_, _, _, _, _)
EwmaFrom(result, key, i, ewma, alpha) ==
  IF i > Len(result) THEN result
  ELSE IF IsValidCell(result[i], key)
       THEN LET e == NextEwma(ewma, result[i][key], alpha)
            IN EwmaFrom([result EXCEPT ![i] = Spread(@, key, e)], key, i + 1, e, alpha)
       ELSE IF ewma # NULL
            THEN EwmaFrom([result EXCEPT ![i] = Spread(@, key, ewma)],
                          key, i + 1, ewma, alpha)
            ELSE EwmaFrom(result, key, i + 1, ewma, alpha)

\* Lines 451-518 for the keys from position k on.
RECURSIVE CutKeysFrom(_, _, _, _, _, _)
CutKeysFrom(result, keys, k, alpha, windowSize, spikeThreshold) ==
  IF k > Len(keys) THEN result
  ELSE CutKeysFrom(
         EwmaFrom(DetectFrom(result, keys[k], 1, windowSize \div 2, spikeThreshold),
                  keys[k], 1, NULL, alpha),
         keys, k + 1, alpha, windowSize, spikeThreshold)

\* cutPeakValues(data, keys, alpha, windowSize, spikeThreshold) on an array.
cutPeakValues(data, keys, alpha, windowSize, spikeThreshold) ==
  IF Len(data) = 0 THEN data
  ELSE CutKeysFrom(data, keys, 1, alpha, windowSize, spikeThreshold)

\* const result = data: the argument under a second name.
ArrayAlias(a) == [items |-> a, same |-> TRUE]

\* [...data], line 447: a new array holding the same row objects.
ArrayCopy(a) == [items |-> a, same |-> FALSE]

PeakInit ==
  \E keys \in PeakKeyLists, alpha \in PeakAlphas, windowSize \in PeakWindows,
     arg \in ArgKinds :
    \E cells \in IF arg = "array" THEN SeqsUpTo(PeakCells, MaxPeakRows) ELSE {<<>>} :
      peak = [pc |-> "call", arg |-> arg, data |-> PeakRowsOf(cells), keys |-> keys,
              alpha |-> alpha, windowSize |-> windowSize,
              spikeThreshold |-> DefaultSpikeThreshold,
              k |-> 1, detected |-> <<>>, result |-> <<>>, same |-> FALSE]

NotPeak == <<ping, stats, stride, interp, fill, retention, chart, loss, panel, legend>>

\* Line 445: nothing to do, the argument is returned.
PeakEmpty ==
  /\ peak.pc = "call"
  /\ peak.arg \in NoArrayKinds \/ Len(peak.data) = 0
  /\ peak' = [peak EXCEPT !.pc = "done", !.result = peak.data, !.same = TRUE]
  /\ UNCHANGED NotPeak

\* Lines 447-448: the array is copied.
PeakCopy ==
  /\ peak.pc = "call"
  /\ Len(peak.data) > 0
  /\ LET copy == ArrayCopy(peak.data)
     IN peak' = [peak EXCEPT !.pc = "detect", !.result = copy.items,
                             !.detected = copy.items, !.same = copy.same]
  /\ UNCHANGED NotPeak

\* Lines 453-493 for keys[k]. result[i] = { ... } stores a new row object in
\* the result array, which is the argument's array when result is the argument.
PeakDetect ==
  /\ peak.pc = "detect"
  /\ peak.k <= Len(peak.keys)
  /\ LET r == DetectFrom(peak.result, peak.keys[peak.k], 1,
                         peak.windowSize \div 2, peak.spikeThreshold)
     IN peak' = [peak EXCEPT !.pc = "smooth", !.result = r, !.detected = r,
                             !.data = IF peak.same THEN r ELSE @]
  /\ UNCHANGED NotPeak

\* Lines 496-517 for keys[k].
PeakSmooth ==
  /\ peak.pc = "smooth"
  /\ LET r == EwmaFrom(peak.result, peak.keys[peak.k], 1, NULL, peak.alpha)
     IN peak' = [peak EXCEPT
           !.pc = "detect",
           !.k = @ + 1,
           !.result = r,
           !.data = IF peak.same THEN r ELSE @]
  /\ UNCHANGED NotPeak

\* Line 520.
PeakReturn ==
  /\ peak.pc = "detect"
  /\ peak.k > Len(peak.keys)
  /\ peak' = [peak EXCEPT !.pc = "done"]
  /\ UNCHANGED NotPeak

InitPeak ==
  /\ PeakInit
  /\ ping = Idle /\ stats = Idle /\ stride = Idle /\ interp = Idle
  /\ fill = Idle /\ retention = Idle /\ chart = Idle /\ loss = Idle /\ panel = Idle /\ legend = Idle

NextPeak == PeakEmpty \/ PeakCopy \/ PeakDetect \/ PeakSmooth \/ PeakReturn

SpecPeak == InitPeak /\ [][NextPeak]_vars

(***************************************************************************)
(* Claims about cutPeakValues.                                             *)
(***************************************************************************)
\* The call has returned after working on its key.
PeakSmoothed == peak.pc = "done" /\ Len(peak.data) > 0 /\ peak.keys # <<>>

\* The samples a detection pass over rows would flag.
PeakFlagged(rows) ==
  {i \in 1..Len(rows) :
     IsSpike(rows, PeakKey, i, peak.windowSize \div 2, peak.spikeThreshold)}

\* The numeric values the first detection pass left in place.
PeakSurvivors ==
  {peak.detected[i][PeakKey] :
     i \in {j \in 1..Len(peak.detected) : IsValidCell(peak.detected[j], PeakKey)}}

IsLost(dataPoint, key) == ~(key \in DOMAIN dataPoint) \/ dataPoint[key] = NULL

\* Lines 534-540, the rate as an exact fraction rounded to one decimal.
calculateLossRate(chartData, key) ==
  IF Len(chartData) = 0 THEN Num(0)
  ELSE LET lostCount == Cardinality({i \in 1..Len(chartData) : IsLost(chartData[i], key)})
       IN Reduced(RoundTo1(<<lostCount * 100, Len(chartData)>>))

LossInit ==
  \E arg \in ArgKinds :
    \E cells \in IF arg = "array" THEN SeqsUpTo(PeakCells, MaxPeakRows) ELSE {<<>>} :
      loss = [pc |-> "call", arg |-> arg, chartData |-> PeakRowsOf(cells),
              taskId |-> 1, result |-> NULL]

NotLoss == <<ping, stats, stride, interp, fill, retention, peak, chart, panel, legend>>

\* Lines 532-540; !chartData covers null and undefined.
CalcLoss ==
  /\ loss.pc = "call"
  /\ loss' = [loss EXCEPT
        !.pc = "done",
        !.result = calculateLossRate(loss.chartData, KeyOf(loss.taskId))]
  /\ UNCHANGED NotLoss

InitLoss ==
  /\ LossInit
  /\ ping = Idle /\ stats = Idle /\ stride = Idle /\ interp = Idle
  /\ fill = Idle /\ retention = Idle /\ peak = Idle /\ chart = Idle /\ panel = Idle /\ legend = Idle

NextLoss == CalcLoss

SpecLoss == InitLoss /\ [][NextLoss]_vars

(***************************************************************************)
(* PingChart.tsx: the chartData memo and the zoom state of the component.  *)
(* Rows are objects: refs[i] names the row object of midData that full[i]  *)
(* is (0 for an object made since), so that a write into a row of full     *)
(* reaches midData exactly when the two are the same object.               *)
(***************************************************************************)
MaxChartRows == 3
ChartTaskLists == {<<>>, <<1>>, <<1, 2>>}
ChartMaxPoints == {Num(0), Num(2)}
InterpMultiplier == 6
InterpMinCapMs == 120000
InterpMaxCapMs == 1800000

\* The cells of a merged row: a row made by a sample of task 1 holds null (a
\* failed sample) or a number under "1"; a row made by a sample of task 2
\* holds a number under "2" and has no key "1".
ChartCells ==
  {[k \in {"1"} |-> c] : c \in {NULL, Num(10), Num(40)}} \cup
  {[k \in {"2"} |-> Num(10)]}

ChartKeys(tasks) == [i \in 1..Len(tasks) |-> KeyOf(tasks[i])]

\* The dependency list of the chartData memo with the zoom window added.
ChartDepsWithRange(c) ==
  <<c.midData, c.cutPeak, c.tasks, c.pingChartMaxPoints, c.timeRange>>

\* Line 182: [midData, cutPeak, pingHistory?.tasks, pingChartMaxPoints].
ChartDeps(c) == <<c.midData, c.cutPeak, c.tasks, c.pingChartMaxPoints>>

\* What midData holds once the rows of full have been written: a row of
\* midData that is also a row of full shows the value written there.
WriteThrough(midData, refs, full) ==
  [j \in 1..Len(midData) |->
     IF \E i \in 1..Len(full) : refs[i] = j
     THEN full[CHOOSE i \in 1..Len(full) : refs[i] = j]
     ELSE midData[j]]

\* The rows cutPeakValues replaces by new objects (lines 485, 489, 511, 514),
\* for the keys from position k on.
RECURSIVE PeakTouched(_, _, _, _)
PeakTouched(cur, keys, k, acc) ==
  IF k > Len(keys) THEN acc
  ELSE LET det == DetectFrom(cur, keys[k], 1, DefaultWindowSize \div 2,
                             DefaultSpikeThreshold)
           t == {i \in 1..Len(cur) :
                   \/ det[i] # cur[i]
                   \/ \E j \in 1..i : IsValidCell(det[j], keys[k])}
       IN PeakTouched(EwmaFrom(det, keys[k], 1, NULL, DefaultAlpha),
                      keys, k + 1, acc \cup t)

\* Lines 146-152: the cells that are null (not undefined) before interpolation.
PreservedNulls(full, keys) ==
  {<<i, keys[k]>> : i \in 1..Len(full), k \in 1..Len(keys)} \cap
  {c \in (1..Len(full)) \X {"1", "2"} :
     c[2] \in DOMAIN full[c[1]] /\ full[c[1]][c[2]] = NULL}

\* Lines 161-167: d[key] = null for every preserved cell.
RestoreNulls(full, keys, preservedNulls) ==
  [i \in 1..Len(full) |->
     [k \in DOMAIN full[i] \cup {key \in {"1", "2"} : <<i, key>> \in preservedNulls} |->
        IF <<i, k>> \in preservedNulls THEN NULL ELSE full[i][k]]]

ChartInit ==
  \E tasks \in ChartTaskLists, cells \in SeqsUpTo(ChartCells, MaxChartRows),
     maxPoints \in ChartMaxPoints :
    chart = [pc |-> "start", tasks |-> tasks, midData |-> PeakRowsOf(cells),
             cutPeak |-> FALSE, pingChartMaxPoints |-> maxPoints,
             full |-> <<>>, refs |-> <<>>, fullIsMid |-> FALSE,
             preservedNulls |-> {}, chartData |-> <<>>, memoDeps |-> <<>>,
             timeRange |-> NULL,
             brushIndices |-> [startIndex |-> UNDEFINED, endIndex |-> UNDEFINED],
             isResetting |-> FALSE, taskStatsRange |-> NULL,
             resetClicked |-> FALSE]

NotChart == <<ping, stats, stride, interp, fill, retention, peak, loss, panel, legend>>

\* Lines 133-135 with nothing to plot: the memo is [].
ChartNothing ==
  /\ chart.pc = "start"
  /\ Len(chart.tasks) = 0 \/ Len(chart.midData) = 0
  /\ chart' = [chart EXCEPT !.pc = "ready", !.chartData = <<>>,
                            !.full = <<>>, !.refs = <<>>, !.fullIsMid = FALSE,
                            !.preservedNulls = {},
                            !.memoDeps = ChartDeps(chart)]
  /\ UNCHANGED NotChart

\* Lines 133-135: let full = midData.
ChartStart ==
  /\ chart.pc = "start"
  /\ Len(chart.tasks) > 0 /\ Len(chart.midData) > 0
  /\ chart' = [chart EXCEPT !.pc = "peak", !.full = chart.midData,
                            !.refs = [i \in 1..Len(chart.midData) |-> i],
                            !.fullIsMid = TRUE,
                            !.preservedNulls = {},
                            !.memoDeps = ChartDeps(chart)]
  /\ UNCHANGED NotChart

\* Lines 137-140 with the toggle on: full = cutPeakValues(full, taskKeys).
ChartCutPeak ==
  /\ chart.pc = "peak"
  /\ chart.cutPeak
  /\ LET keys == ChartKeys(chart.tasks)
         copy == ArrayCopy(chart.full)
         r == CutKeysFrom(copy.items, keys, 1, DefaultAlpha, DefaultWindowSize,
                          DefaultSpikeThreshold)
         touched == PeakTouched(chart.full, keys, 1, {})
         sameArray == chart.fullIsMid /\ copy.same
     IN chart' = [chart EXCEPT
           !.pc = "preserve",
           !.full = r,
           !.refs = [i \in 1..Len(r) |-> IF i \in touched THEN 0 ELSE chart.refs[i]],
           !.fullIsMid = sameArray,
           !.midData = IF sameArray THEN r ELSE @]
  /\ UNCHANGED NotChart

\* Lines 137-140 with the toggle off.
ChartKeepPeaks ==
  /\ chart.pc = "peak"
  /\ ~chart.cutPeak
  /\ chart' = [chart EXCEPT !.pc = "preserve"]
  /\ UNCHANGED NotChart

\* Lines 142-152.
ChartPreserve ==
  /\ chart.pc = "preserve"
  /\ chart' = [chart EXCEPT
        !.pc = "interp",
        !.preservedNulls = PreservedNulls(chart.full, ChartKeys(chart.tasks))]
  /\ UNCHANGED NotChart

\* Lines 154-158: full = interpolateNullsLinear(full, keys, {...}); full and
\* keys are not empty here, so the function takes its copy of the rows and
\* writes the interpolated values into the rows of that copy.
ChartInterpolate ==
  /\ chart.pc = "interp"
  /\ LET copy == CopyRows(chart.full)
         out == InterpKeys(chart.full, copy.items, ChartKeys(chart.tasks),
                           OptionsObject("object", UNDEFINED, Some(InterpMultiplier),
                                         Some(InterpMinCapMs), Some(InterpMaxCapMs)))
         refs == IF copy.fresh THEN [i \in 1..Len(out) |-> 0] ELSE chart.refs
     IN chart' = [chart EXCEPT
           !.pc = "restore",
           !.full = out,
           !.refs = refs,
           !.fullIsMid = FALSE,
           !.midData = WriteThrough(@, refs, out)]
  /\ UNCHANGED NotChart

\* Lines 161-167: the loop writes d[key] = null into the rows of full.
ChartRestore ==
  /\ chart.pc = "restore"
  /\ LET r == RestoreNulls(chart.full, ChartKeys(chart.tasks), chart.preservedNulls)
     IN chart' = [chart EXCEPT
           !.pc = "stride",
           !.full = r,
           !.midData = WriteThrough(@, chart.refs, r)]
  /\ UNCHANGED NotChart

\* Lines 169-176: the stride step, on the rows and on what objects they are.
ChartStride ==
  /\ chart.pc = "stride"
  /\ LET idx == StrideSample([i \in 1..Len(chart.full) |-> i],
                             chart.pingChartMaxPoints)
     IN chart' = [chart EXCEPT
           !.pc = "map",
           !.full = [k \in 1..Len(idx) |-> chart.full[idx[k]]],
           !.refs = [k \in 1..Len(idx) |-> chart.refs[idx[k]]]]
  /\ UNCHANGED NotChart

\* Lines 178-181: new row objects with time as a number of milliseconds.
ChartMap ==
  /\ chart.pc = "map"
  /\ chart' = [chart EXCEPT
        !.pc = "ready",
        !.chartData = [i \in 1..Len(chart.full) |->
                         Spread(chart.full[i], "time",
                                Num(GetTime(chart.full[i]["time"])))]]
  /\ UNCHANGED NotChart

\* The render that follows a state change: the taskStats memo (lines 237-254)
\* follows timeRange, and chartData is computed again only if one of its
\* dependencies has changed.
Rerender(c) ==
  LET c1 == [c EXCEPT !.taskStatsRange = c.timeRange]
  IN IF ChartDeps(c1) # c1.memoDeps THEN [c1 EXCEPT !.pc = "start"] ELSE c1

\* The times of two rows of chartData as a range.
RangeOf(chartData, startIndex, endIndex) ==
  <<chartData[startIndex + 1]["time"][1], chartData[endIndex + 1]["time"][1]>>

BrushEvents ==
  {UNDEFINED} \cup {Some(n) : n \in 0..MaxChartRows}

\* The handlers of the user's events run when the component is rendered and
\* its pending effects have run.
\* Lines 501-520: the Brush reports a new window.
BrushChange ==
  /\ chart.pc = "ready"
  /\ ~chart.isResetting
  /\ \E startIndex \in BrushEvents, endIndex \in BrushEvents :
       chart' = Rerender(
         IF /\ startIndex # UNDEFINED /\ endIndex # UNDEFINED
            /\ startIndex[1] < Len(chart.chartData)
            /\ endIndex[1] < Len(chart.chartData)
         THEN [chart EXCEPT
                 !.timeRange = RangeOf(chart.chartData, startIndex[1], endIndex[1]),
                 !.brushIndices = [startIndex |-> startIndex, endIndex |-> endIndex]]
         ELSE [chart EXCEPT
                 !.timeRange = NULL,
                 !.brushIndices = [startIndex |-> UNDEFINED, endIndex |-> UNDEFINED]])
  /\ UNCHANGED NotChart

\* Lines 369-390 without a window: the last quarter is selected.
QuarterButton ==
  /\ chart.pc = "ready"
  /\ ~chart.isResetting
  /\ chart.timeRange = NULL
  /\ Len(chart.chartData) > 1
  /\ LET endIndex == Len(chart.chartData) - 1
         startIndex == (endIndex * 3) \div 4
     IN chart' = Rerender([chart EXCEPT
           !.timeRange = RangeOf(chart.chartData, startIndex, endIndex),
           !.brushIndices = [startIndex |-> Some(startIndex),
                             endIndex |-> Some(endIndex)]])
  /\ UNCHANGED NotChart

\* Lines 369-380 with a window: with more than one row the whole range is
\* selected and the reset is requested, else nothing is set. resetClicked
\* records that the button was clicked on a window and that no reset has
\* followed yet.
ResetButton ==
  /\ chart.pc = "ready"
  /\ ~chart.isResetting
  /\ chart.timeRange # NULL
  /\ LET endIndex == Len(chart.chartData) - 1
     IN chart' =
          IF Len(chart.chartData) > 1
          THEN Rerender([chart EXCEPT
                 !.timeRange = RangeOf(chart.chartData, 0, endIndex),
                 !.brushIndices = [startIndex |-> Some(0), endIndex |-> Some(endIndex)],
                 !.isResetting = TRUE,
                 !.resetClicked = TRUE])
          ELSE [chart EXCEPT !.resetClicked = TRUE]
  /\ UNCHANGED NotChart

\* Lines 65-71: the effect that runs after isResetting has become true.
ResetEffect ==
  /\ chart.pc = "ready"
  /\ chart.isResetting
  /\ chart' = Rerender([chart EXCEPT
        !.timeRange = NULL,
        !.brushIndices = [startIndex |-> UNDEFINED, endIndex |-> UNDEFINED],
        !.isResetting = FALSE,
        !.resetClicked = FALSE])
  /\ UNCHANGED NotChart

\* Line 323: the smoothing switch, onCheckedChange = setCutPeak.
ToggleCutPeak ==
  /\ chart.pc = "ready"
  /\ ~chart.isResetting
  /\ chart' = Rerender([chart EXCEPT !.cutPeak = ~@])
  /\ UNCHANGED NotChart

ZoomEvent == BrushChange \/ QuarterButton \/ ResetButton \/ ResetEffect

InitChart ==
  /\ ChartInit
  /\ ping = Idle /\ stats = Idle /\ stride = Idle /\ interp = Idle
  /\ fill = Idle /\ retention = Idle /\ peak = Idle /\ loss = Idle /\ panel = Idle /\ legend = Idle

NextChart ==
  \/ ChartNothing \/ ChartStart \/ ChartCutPeak \/ ChartKeepPeaks
  \/ ChartPreserve \/ ChartInterpolate \/ ChartRestore \/ ChartStride \/ ChartMap
  \/ BrushChange \/ QuarterButton \/ ResetButton \/ ResetEffect \/ ToggleCutPeak

SpecChart == InitChart /\ [][NextChart]_vars


(***************************************************************************)
(* The stages of the pipeline taken together: one of the functions of      *)
(* localeUtils.ts is called with any of its arguments, or the component    *)
(* computes chartData.                                                     *)
(***************************************************************************)
InitCalls ==
  \/ InitFill \/ InitInterp \/ InitPeak \/ InitRetention \/ InitStats \/ InitLoss
  \/ InitChart

NextCalls ==
  \/ NextFill \/ NextInterp \/ NextPeak \/ NextRetention \/ NextStats \/ NextLoss
  \/ NextChart

SpecCalls == InitCalls /\ [][NextCalls]_vars

(***************************************************************************)
(* Claims about the functions taken together.                              *)
(***************************************************************************)
\* A function was called with no rows: an empty array, null or undefined.
EmptyInput(r, rows) ==
  r.pc # "idle" /\ (r.arg \in NoArrayKinds \/ Len(rows) = 0)

\* What a function that hands back either its argument or an array of its own
\* has returned: an array, null or undefined.
ReturnedKind(r) == IF r.same THEN r.arg ELSE "array"

\* C14: called with empty, null or undefined records/rows, every function
\* returns without throwing, and the array-returning ones return an empty
\* array.
C14_EmptyInputTolerated ==
  /\ EmptyInput(fill, fill.data) =>
       /\ fill.pc # "threw"
       /\ fill.pc = "done" => fill.filled = <<>>
  /\ EmptyInput(interp, interp.rows) =>
       /\ interp.pc # "threw"
       /\ interp.pc = "done" => ReturnedKind(interp) = "array" /\ interp.out = <<>>
  /\ EmptyInput(peak, peak.data) =>
       /\ peak.pc # "threw"
       /\ peak.pc = "done" => ReturnedKind(peak) = "array" /\ peak.result = <<>>
  /\ EmptyInput(retention, retention.data) =>
       /\ retention.pc # "threw"
       /\ retention.pc = "done" =>
            ReturnedKind(retention) = "array" /\ retention.result = <<>>
  /\ EmptyInput(loss, loss.chartData) => loss.pc # "threw"
  /\ EmptyInput(stats, stats.records) => stats.pc # "threw"

\* C15: no stage mutates its input: across every step of fillMissingTimePoints,
\* interpolateNullsLinear, cutPeakValues, sampleDataByRetention and of the
\* chartData computation (the restore loop included) the input array holds
\* the same rows with the same field values.
C15_InputsNotMutated ==
  [][/\ fill.pc # "idle" => fill'.data = fill.data
     /\ interp.pc # "idle" => interp'.rows = interp.rows
     /\ peak.pc # "idle" => peak'.data = peak.data
     /\ retention.pc # "idle" => retention'.data = retention.data
     /\ chart.pc # "idle" => chart'.midData = chart.midData]_vars

\* The restore loop has run after an interpolation that gave a number to a
\* cell the bucketed row does not have, and has blanked a preserved cell.
C15_Witness ==
  /\ chart.pc = "stride"
  /\ \E c \in chart.preservedNulls :
       chart.full[c[1]][c[2]] = NULL /\ chart.midData[c[1]][c[2]] = NULL
  /\ \E i \in 1..Len(chart.midData) :
       /\ "1" \notin DOMAIN chart.midData[i]
       /\ IsValidCell(chart.full[i], "1")

\* C16 as stated: interpolateNullsLinear, cutPeakValues and
\* sampleDataByRetention return a new array, distinct from the one passed in,
\* for every input.
C16_AlwaysNewArray ==
  /\ (interp.pc = "done" /\ interp.arg = "array") => ~interp.same
  /\ (peak.pc = "done" /\ peak.arg = "array") => ~peak.same
  /\ (retention.pc = "done" /\ retention.arg = "array") => ~retention.same

\* C16, amended: the three functions return a new array except on their early
\* returns, where the array passed in comes back: interpolateNullsLinear for
\* no rows or no keys, cutPeakValues for no rows, sampleDataByRetention for
\* one or two rows (for no rows it returns a new empty array).
C16_NewArrayButEarlyReturns ==
  /\ (interp.pc = "done" /\ interp.arg = "array") =>
       (interp.same <=> (Len(interp.rows) = 0 \/ Len(interp.keys) = 0))
  /\ (peak.pc = "done" /\ peak.arg = "array") =>
       (peak.same <=> Len(peak.data) = 0)
  /\ (retention.pc = "done" /\ retention.arg = "array") =>
       (retention.same <=> Len(retention.data) \in {1, 2})

\* cutPeakValues has returned an array of its own for rows it has smoothed.
C16_Witness ==
  /\ peak.pc = "done"
  /\ peak.arg = "array"
  /\ Len(peak.data) = 3
  /\ peak.keys # <<>>
  /\ peak.result # peak.data
  /\ ~peak.same


(***************************************************************************)
(* Claims about the chartData memo and the zoom window.                    *)
(***************************************************************************)
\* The component state with the zoom window and what derives from it left out.
NonZoom(c) ==
  [c EXCEPT !.timeRange = NULL,
            !.brushIndices = [startIndex |-> UNDEFINED, endIndex |-> UNDEFINED],
            !.isResetting = FALSE,
            !.resetClicked = FALSE,
            !.taskStatsRange = NULL]

\* C17: a change of the zoom window (brush change, one-quarter button, reset
\* button, reset effect) changes only timeRange, brushIndices, isResetting
\* and the task statistics derived from them; midData and chartData are the
\* same after the event as before it.
C17_ZoomLeavesSeries ==
  [][ZoomEvent =>
       /\ NonZoom(chart') = NonZoom(chart)
       /\ chart'.midData = chart.midData
       /\ chart'.chartData = chart.chartData]_vars

\* The reset button has been pressed on a window set before: the whole range
\* is selected, the reset is pending and the statistics follow the window.
C17_Witness ==
  /\ chart.pc = "ready"
  /\ chart.isResetting
  /\ Len(chart.chartData) = 3
  /\ chart.timeRange = RangeOf(chart.chartData, 0, 2)
  /\ chart.taskStatsRange = chart.timeRange
  /\ chart.brushIndices = [startIndex |-> Some(0), endIndex |-> Some(2)]

\* C18: for either setting of the smoothing toggle, every cell of the
\* bucketed series that is null (its raw sample was a failed measurement) is
\* null in the rows that interpolation and the restore pass have produced.
C18_FailedPingsStayNull ==
  chart.pc = "stride" =>
    \A i \in 1..Len(chart.midData), k \in 1..Len(chart.tasks) :
      LET key == KeyOf(chart.tasks[k])
      IN (key \in DOMAIN chart.midData[i] /\ chart.midData[i][key] = NULL) =>
           (key \in DOMAIN chart.full[i] /\ chart.full[i][key] = NULL)

(***************************************************************************)
(* A further claim about the merge of PingChart.tsx.                       *)
(***************************************************************************)
\* C19: a raw sample whose time text cannot be parsed does not make the merge
\* step throw; the step still returns a row list.
C19_BadTimeTolerated == ping.pc # "threw"

(***************************************************************************)
(* A further claim about fillMissingTimePoints.                            *)
(***************************************************************************)
\* The call has returned a grid for a non-empty input and a positive interval.
FillGridReturned ==
  fill.pc = "done" /\ Len(fill.data) > 0 /\ fill.intervalSec > 0

\* The times of the input rows and of the rows returned, in milliseconds.
FillInputTimes == {TimeAt(fill.data, i) : i \in 1..Len(fill.data)}
FillLatest == CHOOSE t \in FillInputTimes : \A u \in FillInputTimes : u <= t
FillEarliest == CHOOSE t \in FillInputTimes : \A u \in FillInputTimes : t <= u
FillEvenlySpaced ==
  \A i \in 1..(Len(fill.filled) - 1) :
    TimeAt(fill.filled, i + 1) - TimeAt(fill.filled, i) = fill.intervalSec * 1000
FillIsFixed == fill.totalSeconds # NULL /\ fill.totalSeconds[1] > 0

FillToleranceMs == OrDefault(fill.matchToleranceSec, fill.intervalSec) * 1000

\* The input rows within the tolerance of the time t.
FillNear(t) ==
  {i \in 1..Len(fill.data) : Abs(TimeAt(fill.data, i) - t) <= FillToleranceMs}

\* The rows of FillNear(t) that no other row of it is closer to t.
FillNearest(t) ==
  {i \in FillNear(t) :
     \A j \in FillNear(t) :
       Abs(TimeAt(fill.data, i) - t) <= Abs(TimeAt(fill.data, j) - t)}

\* C21: every row returned carries the values of an input row nearest to its
\* grid time among the rows within the tolerance, and is a null row only when
\* no input row lies within the tolerance.
C21_NearestRowUsed ==
  FillGridReturned =>
    \A k \in 1..Len(fill.filled) :
      LET t == TimeAt(fill.filled, k)
      IN IF FillNear(t) = {}
         THEN fill.filled[k][FillKey] = NULL
         ELSE \E i \in FillNearest(t) :
                fill.filled[k][FillKey] = fill.data[i][FillKey]

(***************************************************************************)
(* The cap of interpolateNullsLinear.                                      *)
(***************************************************************************)
\* Twice the median of a non-empty list of gaps: the middle element of the
\* sorted list, or the mean of the two middle elements when the length is even.
MedianTwice(gaps) ==
  LET sorted == SortInts(gaps)
      n == Len(sorted)
  IN IF n % 2 = 1 THEN 2 * sorted[(n \div 2) + 1]
     ELSE sorted[n \div 2] + sorted[(n \div 2) + 1]

\* The time deltas between the consecutive valid samples of the key.
InterpDeltas ==
  [s \in 1..(Len(validIdx(interp.rows, InterpKey)) - 1) |->
     TimeAt(interp.rows, validIdx(interp.rows, InterpKey)[s + 1])
       - TimeAt(interp.rows, validIdx(interp.rows, InterpKey)[s])]

\* Twice the cap the key is to have: the unified cap when one is supplied, else
\* clamp(median * multiplier, minCapMs, maxCapMs).
InterpStatedCapTwice ==
  IF interp.options.maxGapMs # UNDEFINED THEN 2 * interp.options.maxGapMs[1]
  ELSE clamp(MedianTwice(InterpDeltas)
               * OrDefault(interp.options.maxGapMultiplier, DefaultMultiplier),
             2 * OrDefault(interp.options.minCapMs, DefaultMinCapMs),
             2 * OrDefault(interp.options.maxCapMs, DefaultMaxCapMs))

\* The call went through the loops for the key.
InterpRan ==
  interp.pc = "done" /\ interp.arg = "array" /\ Len(interp.rows) > 0
    /\ interp.keys = <<InterpKey>>

\* C22: the cells between two consecutive valid samples t0 < t1 of a key are
\* filled exactly when t1 - t0 does not exceed the cap of the key, which is
\* the unified cap when one is supplied and clamp(median * multiplier,
\* minCapMs, maxCapMs) of the key's deltas otherwise.
C22_CapIsClampedMedian ==
  InterpRan =>
    \A p \in InterpPairs :
      TimeAt(interp.rows, p[1]) < TimeAt(interp.rows, p[2]) =>
        \A j \in (p[1] + 1)..(p[2] - 1) :
          InterpWritten(j) <=>
            2 * (TimeAt(interp.rows, p[2]) - TimeAt(interp.rows, p[1]))
              <= InterpStatedCapTwice

(***************************************************************************)
(* The detection pass of cutPeakValues.                                    *)
(***************************************************************************)
\* The detection pass marked the sample of row i.
PeakMarked(i) ==
  IsValidCell(peak.data[i], PeakKey) /\ ~IsValidCell(peak.detected[i], PeakKey)

\* The rows within +/- halfWindow of row i, i left out.
PeakWindowOf(i) ==
  {j \in 1..Len(peak.data) :
     j # i /\ Abs(j - i) <= peak.windowSize \div 2}

\* The sum of the key's values over the rows S of rows.
RECURSIVE PeakSumOver(_, _)
PeakSumOver(rows, S) ==
  IF S = {} THEN Num(0)
  ELSE LET j == CHOOSE x \in S : TRUE
       IN FracAdd(rows[j][PeakKey], PeakSumOver(rows, S \ {j}))

\* The spike rule for the value v against the numeric neighbours N of rows.
PeakRule(v, rows, N) ==
  LET m == FracMul(PeakSumOver(rows, N), <<1, Cardinality(N)>>)
  IN IF FracLt(Num(0), m)
     THEN FracLt(FracMul(peak.spikeThreshold, m), FracAbs(FracSub(v, m)))
     ELSE FracLt(Num(NearZeroLimit), FracAbs(v))

\* The numeric neighbours of row i among the input rows.
PeakInputNeighbors(i) ==
  {j \in PeakWindowOf(i) : IsValidCell(peak.data[j], PeakKey)}

\* The numeric neighbours of row i as the detection loop finds them: rows
\* before i without the samples already marked, rows after i as in the input.
PeakLoopNeighbors(i) ==
  {j \in PeakWindowOf(i) :
     IsValidCell(IF j < i THEN peak.detected[j] ELSE peak.data[j], PeakKey)}

\* C23 as stated: a numeric sample is marked exactly when the rule holds for
\* the mean of the numeric values of the input rows of its window.
C23_SpikeRuleOnInput ==
  PeakSmoothed =>
    \A i \in 1..Len(peak.data) :
      (IsValidCell(peak.data[i], PeakKey) /\ PeakInputNeighbors(i) # {}) =>
        (PeakMarked(i) <=>
           PeakRule(peak.data[i][PeakKey], peak.data, PeakInputNeighbors(i)))

\* C23, amended: a numeric sample is marked exactly when its window holds at
\* least two numeric neighbours, counted without the samples the pass has
\* already marked before it, and the rule holds for their mean.
C23_SpikeRuleOnLoopState ==
  PeakSmoothed =>
    \A i \in 1..Len(peak.data) :
      IsValidCell(peak.data[i], PeakKey) =>
        (PeakMarked(i) <=>
           /\ Cardinality(PeakLoopNeighbors(i)) >= 2
           /\ PeakRule(peak.data[i][PeakKey], peak.data, PeakLoopNeighbors(i)))

\* A sample that the rule on the input rows would mark is kept because an
\* earlier neighbour was marked first, while another sample is marked.
C23_Witness ==
  /\ PeakSmoothed
  /\ \E i \in 1..Len(peak.data), j \in 1..Len(peak.data) :
       /\ PeakMarked(j)
       /\ j \in PeakInputNeighbors(i) \ PeakLoopNeighbors(i)
       /\ IsValidCell(peak.data[i], PeakKey)
       /\ ~PeakMarked(i)
       /\ Cardinality(PeakLoopNeighbors(i)) >= 2
       /\ PeakRule(peak.data[i][PeakKey], peak.data, PeakInputNeighbors(i))

(***************************************************************************)
(* The smoothing pass of cutPeakValues.                                    *)
(***************************************************************************)
\* The running average after the rows 1..i of the detected series: null until
\* the first numeric value, round2(v) at it, and
\* round2(alpha * v + (1 - alpha) * ewma) at every later numeric value v.
RECURSIVE PeakEwmaAfter(_)
PeakEwmaAfter(i) ==
  IF i = 0 THEN NULL
  ELSE LET prev == PeakEwmaAfter(i - 1)
           v == peak.detected[i][PeakKey]
       IN IF ~IsValidCell(peak.detected[i], PeakKey) THEN prev
          ELSE IF prev = NULL THEN RoundTo2(v)
          ELSE RoundTo2(FracAdd(FracMul(peak.alpha, v),
                                FracMul(FracSub(Num(1), peak.alpha), prev)))

\* C24: in the smoothing pass every numeric cell becomes the running average
\* updated with it, every null or missing cell becomes the current running
\* average if there is one and is left as it is otherwise.
C24_SmoothingPass ==
  PeakSmoothed =>
    /\ Len(peak.result) = Len(peak.detected)
    /\ \A i \in 1..Len(peak.detected) :
         IF IsValidCell(peak.detected[i], PeakKey) \/ PeakEwmaAfter(i) # NULL
         THEN peak.result[i] = Spread(peak.detected[i], PeakKey, PeakEwmaAfter(i))
         ELSE peak.result[i] = peak.detected[i]

\* A leading cell without a value stayed so, a later value was averaged with
\* the one before it, and a cell without a value after it was filled.
C24_Witness ==
  /\ PeakSmoothed
  /\ Len(peak.result) = 4
  /\ ~IsValidCell(peak.detected[1], PeakKey)
  /\ ~IsValidCell(peak.result[1], PeakKey)
  /\ IsValidCell(peak.detected[2], PeakKey)
  /\ IsValidCell(peak.detected[3], PeakKey)
  /\ peak.result[3][PeakKey] # peak.detected[3][PeakKey]
  /\ peak.result[3][PeakKey] # peak.result[2][PeakKey]
  /\ ~IsValidCell(peak.detected[4], PeakKey)
  /\ peak.result[4][PeakKey] = peak.result[3][PeakKey]

(***************************************************************************)
(* The anchors of the merge step.                                          *)
(***************************************************************************)
\* C25: at every point of the merge, whatever the order in which the samples
\* arrive, two distinct anchors are more than the tolerance apart and every
\* sample consumed lies within the tolerance of the anchor of the row it was
\* written into.
C25_AnchorsApartSamplesNear ==
  ping.pc # "idle" =>
    /\ \A m \in 1..Len(ping.anchors), n \in 1..Len(ping.anchors) :
         m # n => Abs(ping.anchors[m] - ping.anchors[n]) > toleranceMs(ping.tasks)
    /\ \A i \in 1..Len(ping.data) :
         /\ ping.used[i] \in {ping.anchors[n] : n \in 1..Len(ping.anchors)}
         /\ Abs(GetTime(ping.data[i].time) - ping.used[i]) <= toleranceMs(ping.tasks)

\* With a tolerance of 3 s: a sample exactly 3 s from an anchor was written
\* into its row, and a sample 4 s from it, arriving earlier in time order or
\* later, made an anchor of its own.
C25_Witness ==
  /\ MergeDone
  /\ toleranceMs(ping.tasks) = 3000
  /\ Len(ping.anchors) = 2
  /\ Abs(ping.anchors[1] - ping.anchors[2]) = 4000
  /\ \E i \in 1..Len(ping.data) :
       Abs(GetTime(ping.data[i].time) - ping.used[i]) = 3000

(***************************************************************************)
(* The shape of the output of cutPeakValues.                               *)
(***************************************************************************)
\* The rows up to i hold no sample that the detection pass left in place.
PeakNoSurvivorUpTo(i) ==
  \A j \in 1..i : ~IsValidCell(peak.detected[j], PeakKey)

\* C26: the output has as many rows as the input; once a row of the output
\* holds a number every later row does; the rows without a number are the
\* rows before the first sample the detection pass left in place.
C26_NullsOnlyInPrefix ==
  PeakSmoothed =>
    /\ Len(peak.result) = Len(peak.data)
    /\ \A i \in 1..Len(peak.result), j \in 1..Len(peak.result) :
         (i < j /\ IsValidCell(peak.result[i], PeakKey)) =>
           IsValidCell(peak.result[j], PeakKey)
    /\ \A i \in 1..Len(peak.result) :
         ~IsValidCell(peak.result[i], PeakKey) <=> PeakNoSurvivorUpTo(i)

\* Four rows: the first sample was marked and is the prefix without a number;
\* after the first sample left in place a cell without a number was filled.
C26_Witness ==
  /\ PeakSmoothed
  /\ Len(peak.result) = 4
  /\ PeakMarked(1)
  /\ ~IsValidCell(peak.result[1], PeakKey)
  /\ IsValidCell(peak.result[2], PeakKey)
  /\ ~IsValidCell(peak.data[4], PeakKey)
  /\ IsValidCell(peak.result[4], PeakKey)

(***************************************************************************)
(* Termination of fillMissingTimePoints.                                   *)
(***************************************************************************)
\* C27: the call returns a finite grid for every non-empty input and every
\* intervalSec: each pass through the loop of lines 294-296 moves t strictly
\* towards end, so that the condition t <= end fails after finitely many
\* passes.
C27_FillTerminates ==
  [][(fill.pc = "grid" /\ fill'.pc = "grid") => fill'.t > fill.t]_vars

(***************************************************************************)
(* SettingsPanel.tsx: the edited configuration and its preview.            *)
(***************************************************************************)
\* Configurations: objects with some of the keys of ConfigOptions.
ConfigKeys == {"mainWidth", "pingChartMaxPoints"}
ConfigValues == {1, 2}
EmptyConfig == [k \in {} |-> 0]
Configs ==
  {EmptyConfig} \cup
  {[k \in {key} |-> v] : key \in ConfigKeys, v \in ConfigValues} \cup
  [ConfigKeys -> ConfigValues]
DEFAULT_CONFIG == [k \in ConfigKeys |-> 1]

\* No save request is on its way.
NoSave == <<>>

\* updatePreviewConfig(newConfig) of the configuration context: the preview
\* configuration becomes newConfig.
updatePreviewConfig(newConfig) == newConfig

\* The panel once the page has loaded with the saved theme settings: the
\* effects of lines 46-52 have copied them into editingConfig and into the
\* preview; isPreviewing starts as true (line 25), the panel closed
\* (main.tsx line 164).
Mounted(themeSettings) ==
  [pc |-> "ready", isOpen |-> FALSE, editingConfig |-> themeSettings,
   isDefaultObject |-> FALSE, isPreviewing |-> TRUE,
   previewConfig |-> updatePreviewConfig(themeSettings),
   saving |-> NoSave]

PanelInit == \E themeSettings \in Configs : panel = Mounted(themeSettings)

NotPanel == <<ping, stats, stride, interp, fill, retention, peak, chart, loss, legend>>

\* setEditingConfig(next) followed by the re-render: the effect of lines 50-52
\* is due when the state holds another object than before.
SetEditingConfig(p, next, nextIsDefaultObject) ==
  IF nextIsDefaultObject /\ p.isDefaultObject THEN p
  ELSE [p EXCEPT !.editingConfig = next,
                 !.isDefaultObject = nextIsDefaultObject,
                 !.pc = "effect"]

\* useEffect(() => { updatePreviewConfig(editingConfig) }, [editingConfig, ...])
PreviewEffectOf(p) ==
  [p EXCEPT !.pc = "ready",
            !.previewConfig = updatePreviewConfig(p.editingConfig)]

\* The effect of lines 50-52, after the render that follows a change of
\* editingConfig.
PreviewEffect ==
  /\ panel.pc = "effect"
  /\ panel' = PreviewEffectOf(panel)
  /\ UNCHANGED NotPanel

\* main.tsx: setIsSettingsOpen(true).
OpenPanel ==
  /\ panel.pc = "ready"
  /\ ~panel.isOpen
  /\ panel' = [panel EXCEPT !.isOpen = TRUE]
  /\ UNCHANGED NotPanel

\* The close button, lines 142-147.
ClosePanel ==
  /\ panel.pc = "ready"
  /\ panel.isOpen
  /\ panel' = [panel EXCEPT
        !.isOpen = FALSE,
        !.previewConfig = IF panel.isPreviewing
                          THEN updatePreviewConfig(EmptyConfig) ELSE @]
  /\ UNCHANGED NotPanel

\* handleConfigChange(key, value), lines 54-60.
HandleConfigChange ==
  /\ panel.pc = "ready"
  /\ panel.isOpen
  /\ \E key \in ConfigKeys, value \in ConfigValues :
       LET newConfig == Spread(panel.editingConfig, key, value)
           shown == [panel EXCEPT
                       !.previewConfig = IF panel.isPreviewing
                                         THEN updatePreviewConfig(newConfig)
                                         ELSE @]
       IN panel' = SetEditingConfig(shown, newConfig, FALSE)
  /\ UNCHANGED NotPanel

\* handleReset with the question confirmed, lines 77-81.
HandleReset ==
  /\ panel.pc = "ready"
  /\ panel.isOpen
  /\ panel' = SetEditingConfig(panel, DEFAULT_CONFIG, TRUE)
  /\ UNCHANGED NotPanel

\* handlePreviewToggle, lines 83-91.
HandlePreviewToggle ==
  /\ panel.pc = "ready"
  /\ panel.isOpen
  /\ panel' = IF panel.isPreviewing
              THEN [panel EXCEPT !.previewConfig = updatePreviewConfig(EmptyConfig),
                                 !.isPreviewing = FALSE]
              ELSE [panel EXCEPT !.previewConfig = updatePreviewConfig(panel.editingConfig),
                                 !.isPreviewing = TRUE]
  /\ UNCHANGED NotPanel

\* handleImport, lines 105-129: the imported keys become editingConfig; when
\* the user asks to save at once, handleSave sends the editingConfig of the
\* render the handler belongs to.
HandleImport ==
  /\ panel.pc = "ready"
  /\ panel.isOpen
  /\ panel.saving = NoSave
  /\ \E sanitizedConfig \in Configs, saveNow \in BOOLEAN :
       panel' = [SetEditingConfig(panel, sanitizedConfig, FALSE) EXCEPT
                   !.saving = IF saveNow THEN <<panel.editingConfig>> ELSE @]
  /\ UNCHANGED NotPanel

\* handleSave, lines 62-75: the request is sent.
HandleSave ==
  /\ panel.pc = "ready"
  /\ panel.isOpen
  /\ panel.saving = NoSave
  /\ panel' = [panel EXCEPT !.saving = <<panel.editingConfig>>]
  /\ UNCHANGED NotPanel

\* Lines 68-70: the request has succeeded, the page is loaded anew with the
\* settings that were saved.
SaveDone ==
  /\ panel.pc = "ready"
  /\ panel.saving # NoSave
  /\ panel' = Mounted(panel.saving[1])
  /\ UNCHANGED NotPanel

\* Lines 71-74: the request has failed.
SaveFailed ==
  /\ panel.pc = "ready"
  /\ panel.saving # NoSave
  /\ panel' = [panel EXCEPT !.saving = NoSave]
  /\ UNCHANGED NotPanel

InitPanel ==
  /\ PanelInit
  /\ ping = Idle /\ stats = Idle /\ stride = Idle /\ interp = Idle /\ fill = Idle
  /\ retention = Idle /\ peak = Idle /\ chart = Idle /\ loss = Idle /\ legend = Idle

NextPanel ==
  \/ PreviewEffect \/ OpenPanel \/ ClosePanel \/ HandleConfigChange
  \/ HandleReset \/ HandlePreviewToggle \/ HandleImport \/ HandleSave
  \/ SaveDone \/ SaveFailed

SpecPanel == InitPanel /\ [][NextPanel]_vars

(***************************************************************************)
(* Claims about the settings panel.                                        *)
(***************************************************************************)
\* C28: once the preview is off and the preview configuration empty, the
\* preview configuration stays empty through every step that leaves the
\* preview off.
C28_PreviewStaysOff ==
  [][(/\ panel.pc # "idle"
      /\ ~panel.isPreviewing
      /\ panel.previewConfig = EmptyConfig
      /\ ~panel'.isPreviewing) => panel'.previewConfig = EmptyConfig]_vars

(***************************************************************************)
(* The reset of the zoom window of PingChart.                              *)
(***************************************************************************)
\* The effect of lines 65-71 runs after the render that has set isResetting,
\* before the next event of the user is handled. The user's events are under
\* no obligation to happen.
SpecChartLive == InitChart /\ [][NextChart]_vars /\ WF_vars(ResetEffect)

\* The state after a reset: no window, no brush indices, no reset pending.
ZoomIsReset ==
  /\ chart.timeRange = NULL
  /\ chart.brushIndices = [startIndex |-> UNDEFINED, endIndex |-> UNDEFINED]
  /\ ~chart.isResetting

\* C29: a click of the range button on a selected window is always followed
\* by the state without a window, without brush indices and without a
\* pending reset, whatever chartData holds.
C29_ResetClickResets ==
  (chart.pc # "idle" /\ chart.resetClicked) ~> ZoomIsReset

(***************************************************************************)
(* PingChart.tsx: the tasks shown in the chart (visiblePingTasks).         *)
(***************************************************************************)
MaxLegendTasks == 3
LegendIds == 1..MaxLegendTasks

\* The ids of a sequence.
IdsOf(q) == {q[i] : i \in 1..Len(q)}

\* pingHistory.tasks.map((t) => t.id): lists of distinct task ids.
LegendTaskLists ==
  {q \in SeqsUpTo(LegendIds, MaxLegendTasks) : Cardinality(IdsOf(q)) = Len(q)}

\* The updater of lines 56-61.
VisibleAfter(taskIds, prevVisibleTasks) ==
  LET newVisibleTasks ==
        SelectSeq(taskIds,
                  LAMBDA id : Len(prevVisibleTasks) = 0
                                \/ id \in IdsOf(prevVisibleTasks))
  IN IF Len(newVisibleTasks) > 0 THEN newVisibleTasks ELSE taskIds

\* Line 41 and the hook of line 40 before the first answer: nothing is
\* visible and pingHistory is not there yet.
LegendInit ==
  legend = [pc |-> "ready", loaded |-> FALSE, tasks |-> <<>>,
            visiblePingTasks |-> <<>>]

NotLegend == <<ping, stats, stride, interp, fill, retention, peak, chart, loss, panel>>

\* The hook delivers a task list (a new array, with the same ids or others)
\* and the effect of lines 53-63 runs after the render.
RefreshTasks ==
  /\ legend.pc = "ready"
  /\ \E taskIds \in LegendTaskLists :
       legend' = [legend EXCEPT
         !.loaded = TRUE,
         !.tasks = taskIds,
         !.visiblePingTasks = VisibleAfter(taskIds, legend.visiblePingTasks)]
  /\ UNCHANGED NotLegend

\* handleTaskVisibilityToggle(taskId), lines 184-190, from the button of one
\* of the current tasks.
HandleTaskVisibilityToggle ==
  /\ legend.pc = "ready"
  /\ \E taskId \in IdsOf(legend.tasks) :
       legend' = [legend EXCEPT
         !.visiblePingTasks =
            IF taskId \in IdsOf(@)
            THEN SelectSeq(@, LAMBDA id : id # taskId)
            ELSE Append(@, taskId)]
  /\ UNCHANGED NotLegend

\* handleToggleAll, lines 192-199.
HandleToggleAll ==
  /\ legend.pc = "ready"
  /\ legend.loaded
  /\ legend' = [legend EXCEPT
        !.visiblePingTasks =
           IF Len(@) = Len(legend.tasks) THEN <<>> ELSE legend.tasks]
  /\ UNCHANGED NotLegend

InitLegend ==
  /\ LegendInit
  /\ ping = Idle /\ stats = Idle /\ stride = Idle /\ interp = Idle /\ fill = Idle
  /\ retention = Idle /\ peak = Idle /\ chart = Idle /\ loss = Idle /\ panel = Idle

NextLegend == RefreshTasks \/ HandleTaskVisibilityToggle \/ HandleToggleAll

SpecLegend == InitLegend /\ [][NextLegend]_vars

(***************************************************************************)
(* Claims about the visible tasks.                                         *)
(***************************************************************************)
\* C30: after a refresh of the task list visiblePingTasks holds ids of
\* current tasks only, and when the refresh brings the same tasks, every task
\* that was hidden before it is hidden after it.
C30_HiddenStaysHidden ==
  [][(legend.pc # "idle" /\ legend.loaded /\ RefreshTasks) =>
       /\ IdsOf(legend'.visiblePingTasks) \subseteq IdsOf(legend'.tasks)
       /\ legend'.tasks = legend.tasks =>
            \A id \in IdsOf(legend.tasks) :
              id \notin IdsOf(legend.visiblePingTasks) =>
                id \notin IdsOf(legend'.visiblePingTasks)]_vars

====
